---- MODULE Spec2Model ----
(***************************************************************************)
(* A model of results_parser.py: the key parser (a regular expression      *)
(* search followed by datetime.date construction), the history file        *)
(* loader, the other-file loader, and the __main__ block that discovers,   *)
(* parses, merges and summarises; and of git_auto_script.py: a             *)
(* GitRepoUpdater and its run_update, one step per git command.            *)
(*                                                                         *)
(* Strings are sequences of one-character strings, so that formatting a    *)
(* key and searching it with the pattern are two different computations.   *)
(* Python's None is the empty tuple <<>> and a present value x is <<x>>.   *)
(***************************************************************************)
EXTENDS Integers, Sequences, FiniteSets, TLC

VARIABLES
  key_src,       \* how the key under test was written (the caller's input)
  key_string,    \* the argument of parse_datetime_from_string_key
  key_result,    \* what parse_datetime_from_string_key returned
  kpc,           \* "idle" | "call" | "ret"
  other_file,    \* the file handed to parse_other_json_file called alone
  other_result,  \* what it returned
  opc,           \* "idle" | "call" | "ret"
  defined,       \* the module-level function names bound when __main__ runs
  dir_exists,    \* os.path.isdir(args.dir)
  dir_writable,  \* whether open(..., 'w') in the directory succeeds
  fs,            \* the directory: its entries in os.listdir order
  pc,            \* where the __main__ block stands
  exit_status,   \* None while running, then the process's exit status
  exception,     \* None, or the uncaught exception that ended the run
  history_files,
  other_json_files,
  results,       \* the parser test's results (line 99)
  all_history_data,
  total_history_items_overall,
  successfully_processed_history_files,
  hf_done,       \* history_files[1..hf_done] have been through the loop body
  last_history,  \* (parsed_data_from_file, sym_count_in_file, item_count_in_file)
  all_other_data,
  successfully_parsed_other_files,
  ojf_done,      \* other_json_files[1..ojf_done] have been through the loop body
  parsed_content,
  summary,       \* what print_data_summary printed
  base_repo_url, \* the arguments of GitRepoUpdater(...)
  local_path,
  username,
  token,
  authenticated_repo_url,  \* self.authenticated_repo_url (line 93)
  path_exists,   \* os.path.exists(self.local_path)
  is_git_repo,   \* whether self.local_path holds a .git directory
  info_files,    \* how many of info1.txt .. info5.txt hold the new timestamp
  cwd,           \* the working directory of the process
  original_cwd,  \* the local of commit_and_push_changes (line 177)
  gpc,           \* where run_update stands
  cp_return,     \* the value commit_and_push_changes is about to return
  push_error,    \* the stderr of the initial push when it failed
  commands,      \* the git commands run so far, with how each ended
  calls,         \* the methods run_update has called, with what each returned
  stdout,        \* what the script has printed so far
  run_update_return,  \* None, or what run_update returned
  caller         \* who called commit_and_push_changes: "run_update" or "direct"

keyVars == <<key_src, key_string, key_result, kpc>>
otherVars == <<other_file, other_result, opc>>
envVars == <<defined, dir_exists, dir_writable>>
historyVars ==
  <<all_history_data, total_history_items_overall,
    successfully_processed_history_files, hf_done, last_history>>
otherLoopVars ==
  <<all_other_data, successfully_parsed_other_files, ojf_done, parsed_content>>
mainVars ==
  <<envVars, fs, pc, exit_status, exception, history_files, other_json_files,
    results, historyVars, otherLoopVars, summary>>

gitVars ==
  <<base_repo_url, local_path, username, token, authenticated_repo_url, path_exists,
    is_git_repo, info_files, cwd, original_cwd, gpc, cp_return, push_error, commands,
    calls, stdout, run_update_return, caller>>

vars == <<keyVars, otherVars, mainVars, gitVars>>

None == <<>>
Some(x) == <<x>>

(***************************************************************************)
(* Characters and decimal conversion.                                      *)
(***************************************************************************)
Digits == <<"0", "1", "2", "3", "4", "5", "6", "7", "8", "9">>

IsDigit(c) == \E i \in 1..10 : Digits[i] = c

IsSpace(c) == c \in {" ", "\t"}

DigitVal(c) == (CHOOSE i \in 1..10 : Digits[i] = c) - 1

\* int(digit_string): base-10 value, leading zeros allowed.
RECURSIVE int(_)
int(tok) ==
  IF tok = <<>> THEN 0
  ELSE 10 * int(SubSeq(tok, 1, Len(tok) - 1)) + DigitVal(tok[Len(tok)])

(***************************************************************************)
(* The pattern of line 27, matched the way re.search matches it: every     *)
(* start position from the left, greedy quantifiers.  Each quantified      *)
(* piece is followed by a character outside its own class, so the greedy   *)
(* choice is the only one that can succeed and no backtracking is lost.    *)
(***************************************************************************)
DateCtor == <<"d", "a", "t", "e", "t", "i", "m", "e", ".", "d", "a", "t", "e">>

YearDigits == 4
MinFieldDigits == 1
MaxFieldDigits == 2

\* \s* from position i: the first position that holds no whitespace.
RECURSIVE SkipSpace(_, _)
SkipSpace(s, i) ==
  IF i <= Len(s) /\ IsSpace(s[i]) THEN SkipSpace(s, i + 1) ELSE i

\* a literal at position i: the position after it, or 0.
Lit(s, i, lit) ==
  IF i >= 1 /\ i + Len(lit) - 1 <= Len(s) /\ SubSeq(s, i, i + Len(lit) - 1) = lit
  THEN i + Len(lit) ELSE 0

\* \s* then a literal: the position after it, or 0.
SpLit(s, i, lit) == IF i = 0 THEN 0 ELSE Lit(s, SkipSpace(s, i), lit)

\* [^']* from position i: the position of the next single quote, or 0.
RECURSIVE NextQuote(_, _)
NextQuote(s, i) ==
  IF i > Len(s) THEN 0
  ELSE IF s[i] = "'" THEN i ELSE NextQuote(s, i + 1)

\* how many digits stand at position i, counted up to max.
RECURSIVE DigitRun(_, _, _)
DigitRun(s, i, max) ==
  IF max = 0 \/ i > Len(s) \/ ~IsDigit(s[i]) THEN 0
  ELSE 1 + DigitRun(s, i + 1, max - 1)

\* \s*(\d{lo,hi}) from position i: [next |-> position after, tok |-> digits],
\* next = 0 when it does not match.
Group(next, tok) == [next |-> next, tok |-> tok]

\* n digits found at position j, at least lo wanted.
FieldTok(s, j, n, lo) ==
  IF n >= lo THEN Group(j + n, SubSeq(s, j, j + n - 1)) ELSE Group(0, <<>>)

FieldAt(s, j, lo, hi) == FieldTok(s, j, DigitRun(s, j, hi), lo)

Field(s, i, lo, hi) ==
  IF i = 0 THEN Group(0, <<>>) ELSE FieldAt(s, SkipSpace(s, i), lo, hi)

NoMatch == [matched |-> FALSE, g1 |-> <<>>, g2 |-> <<>>, g3 |-> <<>>, g4 |-> <<>>]

\* \(\s*'([^']*)' : the symbol group.
\* q1: the position after the opening quote, q2: that of the closing quote.
SymbolBetween(s, q1, q2) ==
  IF q2 = 0 THEN Group(0, <<>>) ELSE Group(q2 + 1, SubSeq(s, q1, q2 - 1))

SymbolFrom(s, q1) == SymbolBetween(s, q1, IF q1 = 0 THEN 0 ELSE NextQuote(s, q1))

SymbolGroup(s, i) == SymbolFrom(s, SpLit(s, Lit(s, i, <<"(">>), <<"'">>))

\* \s*,\s*datetime\.date\s*\(\s*(\d{4}) : the year group.
YearGroup(s, i) ==
  Field(s, SpLit(s, SpLit(s, SpLit(s, i, <<",">>), DateCtor), <<"(">>), YearDigits, YearDigits)

\* (mutant) the day group made optional, day 1 when it is absent.
DayGroup_optional(s, i) ==
  IF i # 0 /\ Field(s, SpLit(s, i, <<",">>), MinFieldDigits, MaxFieldDigits).next = 0
  THEN Group(i, <<"1">>)
  ELSE Field(s, SpLit(s, i, <<",">>), MinFieldDigits, MaxFieldDigits)

\* \s*,\s*(\d{1,2}) : the month group and the day group.
MonthGroup(s, i) == Field(s, SpLit(s, i, <<",">>), MinFieldDigits, MaxFieldDigits)

DayGroup(s, i) == Field(s, SpLit(s, i, <<",">>), MinFieldDigits, MaxFieldDigits)

\* the whole pattern, tried at start position i.
\* \s*\)\s*\) after the day group: the match object.
MatchClose(s, sym, yr, mo, dy) ==
  IF SpLit(s, SpLit(s, dy.next, <<")">>), <<")">>) = 0 THEN NoMatch
  ELSE [matched |-> TRUE, g1 |-> sym.tok, g2 |-> yr.tok, g3 |-> mo.tok, g4 |-> dy.tok]

MatchDay(s, sym, yr, mo) == MatchClose(s, sym, yr, mo, DayGroup(s, mo.next))

MatchMonth(s, sym, yr) == MatchDay(s, sym, yr, MonthGroup(s, yr.next))

MatchYear(s, sym) == MatchMonth(s, sym, YearGroup(s, sym.next))

MatchAt(s, i) == MatchYear(s, SymbolGroup(s, i))

\* the leftmost start position at which the pattern matches.
RECURSIVE SearchFrom(_, _)
SearchNext(s, i, m) == IF m.matched THEN m ELSE SearchFrom(s, i + 1)

SearchFrom(s, i) == IF i > Len(s) THEN NoMatch ELSE SearchNext(s, i, MatchAt(s, i))

\* (mutant) re.match in place of re.search: the start of the key only.
re_match(s) == MatchAt(s, 1)

re_search(s) == SearchFrom(s, 1)

(***************************************************************************)
(* datetime.date(year, month, day): the value, or ValueError.              *)
(***************************************************************************)
MINYEAR == 1
MAXYEAR == 9999

is_leap(year) == year % 4 = 0 /\ (year % 100 # 0 \/ year % 400 = 0)

DAYS_IN_MONTH == <<31, 28, 31, 30, 31, 30, 31, 31, 30, 31, 30, 31>>

\* (mutant) every month given 31 days.
days_in_month_31(year, month) == 31

days_in_month(year, month) ==
  IF month = 2 /\ is_leap(year) THEN 29 ELSE DAYS_IN_MONTH[month]

\* (mutant) the range checks of the constructor left out.
datetime_date_unchecked(year, month, day) ==
  [ok |-> TRUE, date |-> [year |-> year, month |-> month, day |-> day]]

datetime_date(year, month, day) ==
  IF /\ MINYEAR <= year /\ year <= MAXYEAR
     /\ 1 <= month /\ month <= 12
     /\ 1 <= day /\ day <= days_in_month(year, month)
  THEN [ok |-> TRUE, date |-> [year |-> year, month |-> month, day |-> day]]
  ELSE [ok |-> FALSE, date |-> [year |-> 0, month |-> 0, day |-> 0]]

(***************************************************************************)
(* parse_datetime_from_string_key: (symbol, date_obj) or (None, None).     *)
(***************************************************************************)
\* lines 37-41: the date built, or ValueError caught.
ParsedPair(symbol, date_obj) ==
  IF date_obj.ok THEN <<Some(symbol), Some(date_obj.date)>> ELSE <<None, None>>

\* lines 30-44.
ParsedMatch(match) ==
  IF match.matched
  THEN ParsedPair(match.g1, datetime_date(int(match.g2), int(match.g3), int(match.g4)))
  ELSE <<None, None>>

parse_datetime_from_string_key(s) == ParsedMatch(re_search(s))

(***************************************************************************)
(* The keys handed to the parser.  A key is written from a symbol and      *)
(* three integers in one of several forms: "repr" is what Python prints    *)
(* for the tuple (symbol, datetime.date(Y, M, D)); the malformed forms are *)
(* those of the test keys of lines 91-97.                                  *)
(***************************************************************************)
MaxMonth == 13
MaxDay == 32

Years == {0, 1, 999, 1000, 1900, 2000, 2023, 2024, 9999}

Symbols == {<<>>, <<"A">>, <<"0", ".", "S">>}

\* decimal numeral of n >= 0, no padding.
RECURSIVE Dec(_)
Dec(n) == IF n < 10 THEN <<Digits[n + 1]>> ELSE Dec(n \div 10) \o <<Digits[(n % 10) + 1]>>

\* left-padded with zeros to width w.
RECURSIVE ZeroPad(_, _)
ZeroPad(tok, w) == IF Len(tok) >= w THEN tok ELSE ZeroPad(<<"0">> \o tok, w)

WellFormedForms == {"repr", "zero4", "spaced"}
MalformedForms ==
  {"two", "one", "zero", "nodate", "onlysym", "alphaY", "alphaM", "alphaD",
   "mixedY", "mixedD", "emptyD"}

JunkBefore == {<<>>, <<"x", "x">>, <<"(", "'">>, <<"[">>}
JunkAfter == {<<>>, <<"y">>, <<")">>, <<",", " ", "1">>}

Quoted(sym) == <<"(", "'">> \o sym \o <<"'", ",", " ">>

Ctor(args) == DateCtor \o <<"(">> \o args \o <<")", ")">>

Sep == <<",", " ">>

KeyForm(form, sym, Y, Y4, M, D) ==
  CASE form = "repr"    -> Quoted(sym) \o Ctor(Y \o Sep \o M \o Sep \o D)
    [] form = "zero4"   -> Quoted(sym) \o Ctor(Y4 \o Sep \o M \o Sep \o D)
    [] form = "spaced"  ->
         <<"(", " ", "'">> \o sym \o <<"'", " ", ",", "\t">> \o DateCtor
         \o <<" ", "(", " ">> \o Y4 \o <<" ", ",">> \o ZeroPad(M, 2) \o <<",", " ", " ">>
         \o ZeroPad(D, 2) \o <<" ", ")", " ", ")">>
    [] form = "two"     -> Quoted(sym) \o Ctor(Y4 \o Sep \o M)
    [] form = "one"     -> Quoted(sym) \o Ctor(Y4)
    [] form = "zero"    -> Quoted(sym) \o Ctor(<<>>)
    [] form = "nodate"  -> Quoted(sym) \o Y \o <<")">>
    [] form = "onlysym" -> Quoted(sym) \o <<")">>
    [] form = "alphaY"  -> Quoted(sym) \o Ctor(<<"Y", "Y", "Y", "Y">> \o Sep \o M \o Sep \o D)
    [] form = "alphaM"  -> Quoted(sym) \o Ctor(Y4 \o Sep \o <<"X", "X">> \o Sep \o D)
    [] form = "alphaD"  -> Quoted(sym) \o Ctor(Y4 \o Sep \o M \o Sep \o <<"X", "X">>)
    [] form = "mixedY"  -> Quoted(sym) \o Ctor(SubSeq(Y4, 1, 3) \o <<"X">> \o Sep \o M \o Sep \o D)
    [] form = "mixedD"  -> Quoted(sym) \o Ctor(Y4 \o Sep \o M \o Sep \o SubSeq(D, 1, 1) \o <<"X">>)
    [] form = "emptyD"  -> Quoted(sym) \o Ctor(Y4 \o Sep \o M \o Sep)

KeyBody(src) ==
  KeyForm(src.form, src.symbol, Dec(src.year), ZeroPad(Dec(src.year), 4),
          Dec(src.month), Dec(src.day))

KeyText(src) == src.pre \o KeyBody(src) \o src.post

KeySrc(f, s, y, m, d, a, b) ==
  [form |-> f, symbol |-> s, year |-> y, month |-> m, day |-> d, pre |-> a, post |-> b]

KeyInputs ==
  {KeySrc(f, s, y, m, d, <<>>, <<>>) :
     f \in WellFormedForms, s \in Symbols, y \in Years, m \in 0..MaxMonth, d \in 0..MaxDay}
  \cup
  {KeySrc(f, s, y, m, d, <<>>, <<>>) :
     f \in MalformedForms, s \in Symbols, y \in Years, m \in {1, 12}, d \in {1, 25}}
  \cup
  {KeySrc("zero4", s, y, 2, d, a, b) :
     s \in Symbols, y \in {2023, 2024}, d \in {29, 30}, a \in JunkBefore, b \in JunkAfter}

(***************************************************************************)
(* Decoded JSON.  Every Python str is a sequence of characters; a decoded  *)
(* object keeps its members in file order (a dict keeps insertion order).  *)
(* Numbers are written in tenths, so 150.0 is JNum(1500).                  *)
(***************************************************************************)
JBlank == [t |-> "null", n |-> 0, s |-> <<>>, elems |-> <<>>, items |-> <<>>]

JNull == JBlank

JNum(x) == [JBlank EXCEPT !.t = "num", !.n = x]

JStr(x) == [JBlank EXCEPT !.t = "str", !.s = x]

JList(xs) == [JBlank EXCEPT !.t = "list", !.elems = xs]

\* members: a sequence of <<key, value>> with distinct keys.
JObj(members) == [JBlank EXCEPT !.t = "obj", !.items = members]

(***************************************************************************)
(* dict: a sequence of <<key, value>> pairs in insertion order.            *)
(***************************************************************************)
DictHas(d, k) == \E i \in 1..Len(d) : d[i][1] = k

DictGet(d, k) == d[CHOOSE i \in 1..Len(d) : d[i][1] = k][2]

DictKeys(d) == {d[i][1] : i \in 1..Len(d)}

\* d.get(k, {})
DictGetOrEmpty(d, k) == IF DictHas(d, k) THEN DictGet(d, k) ELSE <<>>

\* d[k] = v
DictIndex(d, k) == CHOOSE i \in 1..Len(d) : d[i][1] = k

ReplaceAt(d, i, pair) == SubSeq(d, 1, i - 1) \o <<pair>> \o SubSeq(d, i + 1, Len(d))

DictSet(d, k, v) ==
  IF DictHas(d, k) THEN ReplaceAt(d, DictIndex(d, k), <<k, v>>) ELSE Append(d, <<k, v>>)

\* (mutant) setdefault in place of assignment: an existing key keeps its value.
RECURSIVE DictUpdate_keepfirst(_, _)
DictUpdate_keepfirst(d, other) ==
  IF other = <<>> THEN d
  ELSE DictUpdate_keepfirst(
         IF DictHas(d, other[1][1]) THEN d ELSE Append(d, other[1]), Tail(other))

\* d.update(other)
RECURSIVE DictUpdate(_, _)
DictUpdate(d, other) ==
  IF other = <<>> THEN d
  ELSE DictUpdate(DictSet(d, other[1][1], other[1][2]), Tail(other))

(***************************************************************************)
(* Files.  An entry of the directory is a name, whether os.path.isfile     *)
(* holds of it, and what open + json.load give: "ok" with the decoded      *)
(* value, "badjson" (JSONDecodeError) or "missing" (the file was removed   *)
(* after it was listed: FileNotFoundError).                                *)
(***************************************************************************)
File(name, st, json) == [name |-> name, isfile |-> TRUE, st |-> st, json |-> json]

SubDir(name) == [name |-> name, isfile |-> FALSE, st |-> "missing", json |-> JNull]

\* open(file_path) and json.load: the entry of that name, "missing" without one.
ReadFile(dir, path) ==
  IF \E i \in 1..Len(dir) : dir[i].name = path /\ dir[i].isfile
  THEN LET e == dir[CHOOSE i \in 1..Len(dir) : dir[i].name = path /\ dir[i].isfile]
       IN [st |-> e.st, json |-> e.json]
  ELSE [st |-> "missing", json |-> JNull]

(***************************************************************************)
(* parse_history_file (lines 313-355).                                     *)
(***************************************************************************)
\* Python truth of the parser's symbol (None and '' are false) and date.
TruthySymbol(symbol) == symbol # None /\ symbol[1] # <<>>

TruthyDate(date_obj) == date_obj # None

HistoryAcc(pd, syms, n) == [parsed_data |-> pd, symbols_in_file |-> syms, items_in_file |-> n]

\* lines 347-350: parsed_data[symbol][data_type_key][date_obj] = value
StoreInSymbol(bySym, data_type_key, date_obj, value) ==
  DictSet(bySym, data_type_key,
          DictSet(DictGetOrEmpty(bySym, data_type_key), date_obj, value))

StoreValue(parsed_data, symbol, data_type_key, date_obj, value) ==
  DictSet(parsed_data, symbol,
          StoreInSymbol(DictGetOrEmpty(parsed_data, symbol), data_type_key, date_obj, value))

\* lines 342-353: r is what the key parser returned for the pair's key.
HistoryRecord(acc, data_type_key, r, value) ==
  IF TruthySymbol(r[1]) /\ TruthyDate(r[2])
  THEN HistoryAcc(StoreValue(acc.parsed_data, r[1][1], data_type_key, r[2][1], value),
                  acc.symbols_in_file \cup {r[1][1]},
                  acc.items_in_file + 1)
  ELSE acc

\* lines 341-353: one (key_string, value) pair of a category.
HistoryEntry(acc, data_type_key, raw_key, value) ==
  HistoryRecord(acc, data_type_key, parse_datetime_from_string_key(raw_key), value)

\* line 340: for key_string, value in data_dict.items()
RECURSIVE HistoryCategory(_, _, _)
HistoryCategory(acc, data_type_key, members) ==
  IF members = <<>> THEN acc
  ELSE HistoryCategory(
         HistoryEntry(acc, data_type_key, members[1][1], members[1][2]),
         data_type_key, Tail(members))

\* line 336: for data_type_key, data_dict in raw_data.items()
RECURSIVE HistoryCategories(_, _)
HistoryCategories(acc, members) ==
  IF members = <<>> THEN acc
  ELSE HistoryCategories(
         IF members[1][2].t # "obj" THEN acc
         ELSE HistoryCategory(acc, members[1][1], members[1][2].items),
         Tail(members))

HistoryReturn(exc, pd, nsym, nitem) ==
  [raised |-> exc, parsed_data |-> pd, symbol_count |-> nsym, item_count |-> nitem]

\* line 355: return parsed_data, len(symbols_in_file), items_in_file
HistoryDone(acc) ==
  HistoryReturn(None, Some(acc.parsed_data), Cardinality(acc.symbols_in_file),
                acc.items_in_file)

\* what the call gives: raised is None and the three values are the returned
\* tuple, or raised is the exception that leaves the function.
parse_history_file(file) ==
  IF file.st # "ok" THEN HistoryReturn(None, None, 0, 0)
  ELSE IF file.json.t # "obj"
       THEN HistoryReturn(Some("AttributeError"), None, 0, 0)
  ELSE HistoryDone(HistoryCategories(HistoryAcc(<<>>, {}, 0), file.json.items))

(***************************************************************************)
(* parse_other_json_file (lines 357-403): (symbol, details_dict) or None.  *)
(***************************************************************************)
\* (mutant) the isinstance(symbol, str) check left out.
parse_other_json_file_anysymbol(file) ==
  IF file.st # "ok" THEN None
  ELSE LET raw_data == file.json IN
       IF raw_data.t # "list" \/ raw_data.elems = <<>> THEN None
       ELSE LET inner_list == raw_data.elems[1] IN
            IF inner_list.t # "list" \/ Len(inner_list.elems) < 2 THEN None
            ELSE IF inner_list.elems[2].t # "obj" THEN None
                 ELSE Some(<<inner_list.elems[1], inner_list.elems[2]>>)

parse_other_json_file(file) ==
  IF file.st # "ok" THEN None
  ELSE LET raw_data == file.json IN
       IF raw_data.t # "list" \/ raw_data.elems = <<>> THEN None
       ELSE LET inner_list == raw_data.elems[1] IN
            IF inner_list.t # "list" \/ Len(inner_list.elems) < 2 THEN None
            ELSE LET symbol == inner_list.elems[1]
                     details_dict == inner_list.elems[2]
                 IN IF symbol.t # "str" THEN None
                    ELSE IF details_dict.t # "obj" THEN None
                    ELSE Some(<<symbol, details_dict>>)

(***************************************************************************)
(* identify_files (lines 46-72).                                           *)
(***************************************************************************)
JSON_SUFFIX == <<".", "j", "s", "o", "n">>

HISTORY_SUFFIX == <<"_", "h", "i", "s", "t", "o", "r", "y">> \o JSON_SUFFIX

\* (mutant) the suffix looked for anywhere in the name.
EndsWith_anywhere(str, suffix) ==
  \E k \in 1..Len(str) :
    k + Len(suffix) - 1 <= Len(str) /\ SubSeq(str, k, k + Len(suffix) - 1) = suffix

\* str.endswith
EndsWith(str, suffix) ==
  Len(str) >= Len(suffix) /\ SubSeq(str, Len(str) - Len(suffix) + 1, Len(str)) = suffix

FileLists(h, o) == [history_files |-> h, other_json_files |-> o]

\* lines 58-64: for entry in os.listdir(directory_path)
RECURSIVE IdentifyFrom(_, _)
IdentifyFrom(lists, listing) ==
  IF listing = <<>> THEN lists
  ELSE LET entry == listing[1] IN
       IdentifyFrom(
         IF ~entry.isfile THEN lists
         ELSE IF EndsWith(entry.name, HISTORY_SUFFIX)
              THEN FileLists(Append(lists.history_files, entry.name), lists.other_json_files)
         ELSE IF EndsWith(entry.name, JSON_SUFFIX)
              THEN FileLists(lists.history_files, Append(lists.other_json_files, entry.name))
         ELSE lists,
         Tail(listing))

identify_files(isdir, listing) ==
  IF ~isdir THEN FileLists(<<>>, <<>>) ELSE IdentifyFrom(FileLists(<<>>, <<>>), listing)

(***************************************************************************)
(* The names and contents the __main__ block writes (lines 91-97, 129-162, *)
(* 207-225).                                                               *)
(***************************************************************************)
ReprKey(sym, y, m, d) == KeyText(KeySrc("repr", sym, y, m, d, <<>>, <<>>))

AAPL == <<"A", "A", "P", "L">>
MSFT == <<"M", "S", "F", "T">>
close == <<"c", "l", "o", "s", "e">>
open == <<"o", "p", "e", "n">>
name == <<"n", "a", "m", "e">>
sector == <<"s", "e", "c", "t", "o", "r">>

test_keys ==
  << ReprKey(<<"0", "0", "0", "0", "0", "1", ".", "S", "S">>, 1997, 7, 1),
     ReprKey(MSFT, 2023, 12, 25),
     ReprKey(<<"E", "R", "R">>, 2023, 2, 30),
     KeyText(KeySrc("two", <<"B", "A", "D">>, 2023, 12, 1, <<>>, <<>>)),
     KeyText(KeySrc("alphaD", <<"B", "A", "D", "I", "N", "T">>, 2023, 12, 1, <<>>, <<>>)),
     KeyText(KeySrc("nodate", <<"N", "O", "D", "A", "T", "E">>, 123, 1, 1, <<>>, <<>>)),
     KeyText(KeySrc("onlysym", <<"S", "Y", "M", "B", "O", "L", "_", "O", "N", "L", "Y">>,
                       1, 1, 1, <<>>, <<>>)) >>

dummy_hf_path1 == <<"d", "u", "m", "m", "y", "_">> \o AAPL \o HISTORY_SUFFIX

\* the prices are written in tenths: 150.0 is JNum(1500).
dummy_data1 ==
  JObj(<< <<close, JObj(<< <<ReprKey(AAPL, 2023, 1, 1), JNum(1500)>>,
                          <<ReprKey(AAPL, 2023, 1, 2), JNum(1525)>> >>)>>,
          <<open, JObj(<< <<ReprKey(AAPL, 2023, 1, 1), JNum(1490)>>,
                         <<ReprKey(AAPL, 2023, 1, 2), JNum(1502)>> >>)>> >>)

dummy_hf_path2 == <<"d", "u", "m", "m", "y", "_">> \o MSFT \o HISTORY_SUFFIX

dummy_data2 ==
  JObj(<< <<close, JObj(<< <<ReprKey(MSFT, 2023, 1, 1), JNum(2500)>>,
                          <<KeyText(KeySrc("alphaD", MSFT, 2023, 1, 1, <<>>, <<>>)),
                            JNum(2525)>> >>)>> >>)

dummy_other_path1 == <<"d", "u", "m", "m", "y", "_", "i", "n", "f", "o", "_">> \o AAPL \o JSON_SUFFIX

dummy_other_data1 ==
  JList(<< JList(<< JStr(AAPL),
                    JObj(<< <<name, JStr(<<"A", "p", "p", "l", "e", " ", "I", "n", "c", ".">>)>>,
                            <<sector,
                              JStr(<<"T", "e", "c", "h", "n", "o", "l", "o", "g", "y">>)>> >>) >>) >>)

dummy_other_path2_invalid_structure ==
  <<"d", "u", "m", "m", "y", "_", "i", "n", "f", "o", "_", "I", "N", "V", "A", "L", "I", "D">>
  \o JSON_SUFFIX

dummy_other_data2_invalid ==
  JObj(<< <<<<"s", "y", "m", "b", "o", "l">>, JStr(<<"I", "N", "V", "A", "L", "I", "D">>)>>,
          <<<<"d", "a", "t", "a">>,
            JStr(<<"W", "r", "o", "n", "g", "S", "t", "r", "u", "c", "t", "u", "r", "e">>)>> >>)

\* lines 127-162: both dummy history files written, or neither when the
\* directory refuses the writes (the except branches).
HistoryDummies(writable) ==
  IF writable
  THEN << File(dummy_hf_path1, "ok", dummy_data1), File(dummy_hf_path2, "ok", dummy_data2) >>
  ELSE <<>>

\* lines 205-225, likewise.
OtherDummies(writable) ==
  IF writable
  THEN << File(dummy_other_path1, "ok", dummy_other_data1),
          File(dummy_other_path2_invalid_structure, "ok", dummy_other_data2_invalid) >>
  ELSE <<>>

RECURSIVE Names(_)
Names(entries) ==
  IF entries = <<>> THEN <<>> ELSE <<entries[1].name>> \o Names(Tail(entries))

(***************************************************************************)
(* The merge of one file's mapping into all_history_data (lines 175-182).  *)
(***************************************************************************)
\* lines 179-182: for data_type_key, type_data_dict in symbol_data.items()
RECURSIVE MergeSymbol(_, _)
MergeSymbol(bySym, symbol_data) ==
  IF symbol_data = <<>> THEN bySym
  ELSE LET data_type_key == symbol_data[1][1]
           type_data_dict == symbol_data[1][2]
       IN MergeSymbol(
            DictSet(bySym, data_type_key,
                    DictUpdate(DictGetOrEmpty(bySym, data_type_key), type_data_dict)),
            Tail(symbol_data))

\* lines 175-182: for symbol, symbol_data in parsed_data_from_file.items()
RECURSIVE MergeHistory(_, _)
MergeHistory(all, parsed) ==
  IF parsed = <<>> THEN all
  ELSE LET symbol == parsed[1][1] IN
       MergeHistory(
         DictSet(all, symbol, MergeSymbol(DictGetOrEmpty(all, symbol), parsed[1][2])),
         Tail(parsed))

(***************************************************************************)
(* The directories a run starts from: up to MaxEntries entries, each of    *)
(* one of the kinds below, named by its place in the listing.              *)
(***************************************************************************)
MaxEntries == 2

SymA == <<"A">>
SymB == <<"B">>

Kind(k, st, json) == [k |-> k, st |-> st, json |-> json]

\* the same (symbol, date) as ReprKey(SymA, 2023, 1, 1), written differently.
SpacedKeyA1 == KeyText(KeySrc("spaced", SymA, 2023, 1, 1, <<>>, <<>>))

HistoryKinds ==
  { Kind("history", "ok",
      JObj(<< <<close, JObj(<< <<ReprKey(SymA, 2023, 1, 1), JNum(1)>>,
                              <<ReprKey(SymA, 2023, 1, 2), JNum(2)>> >>)>>,
              <<open, JObj(<< <<ReprKey(SymA, 2023, 1, 1), JNum(3)>> >>)>> >>)),
    Kind("history", "ok",
      JObj(<< <<close, JObj(<< <<ReprKey(SymA, 2023, 1, 1), JNum(5)>>,
                              <<ReprKey(SymB, 2024, 2, 29), JNum(6)>> >>)>> >>)),
    Kind("history", "ok",
      JObj(<< <<close, JObj(<< <<SpacedKeyA1, JNum(7)>>,
                              <<ReprKey(SymB, 2023, 2, 30), JNum(8)>>,
                              <<KeyText(KeySrc("alphaD", SymB, 2023, 1, 1, <<>>, <<>>)),
                                JNum(9)>> >>)>> >>)),
    Kind("history", "ok",
      JObj(<< <<close, JObj(<< <<ReprKey(<<>>, 2023, 1, 1), JNum(1)>>,
                              <<ReprKey(SymA, 2023, 1, 2), JNum(4)>> >>)>>,
              <<open, JNum(3)>> >>)),
    Kind("history", "ok", JList(<<JNum(1)>>)),
    Kind("history", "badjson", JNull) }

OtherKinds ==
  { Kind("other", "ok",
      JList(<< JList(<< JStr(AAPL), JObj(<< <<name, JStr(<<"A">>)>> >>) >>) >>)),
    Kind("other", "ok",
      JList(<< JList(<< JStr(AAPL), JObj(<< <<sector, JStr(<<"T">>)>> >>), JNum(5) >>),
               JList(<< JStr(MSFT), JObj(<<>>) >>) >>)),
    Kind("other", "ok", JObj(<< <<name, JStr(AAPL)>> >>)),
    Kind("other", "missing", JNull) }

EntryKinds == HistoryKinds \cup OtherKinds \cup {Kind("subdir", "missing", JNull)}

Letters == <<"a", "b", "c", "d", "e", "f">>

EntryOf(kind, i) ==
  CASE kind.k = "history" -> File(<<Letters[i]>> \o HISTORY_SUFFIX, kind.st, kind.json)
    [] kind.k = "other"   -> File(<<Letters[i]>> \o JSON_SUFFIX, kind.st, kind.json)
    [] kind.k = "subdir"  -> SubDir(<<Letters[i]>> \o HISTORY_SUFFIX)

RECURSIVE Directories(_)
Directories(n) ==
  IF n = 0 THEN {<<>>}
  ELSE LET shorter == Directories(n - 1) IN
       shorter \cup
       {Append(d, EntryOf(k, n)) : d \in {x \in shorter : Len(x) = n - 1}, k \in EntryKinds}

\* the names bound when the __main__ block of line 74 runs: the functions
\* defined above it (lines 10, 21, 46).
DefinedAboveMain == {"parse_arguments", "parse_datetime_from_string_key", "identify_files"}

\* and those the module defines below it (lines 254, 313, 357).
DefinedBelowMain == {"print_data_summary", "parse_history_file", "parse_other_json_file"}

(***************************************************************************)
(* The __main__ block (lines 74-252), one action per section or loop       *)
(* iteration.  A call of an unbound name raises NameError; an uncaught     *)
(* exception ends the process with status 1.                               *)
(***************************************************************************)
IdleKey ==
  /\ key_src = KeySrc("repr", <<>>, 0, 0, 0, <<>>, <<>>)
  /\ key_string = <<>>
  /\ key_result = <<>>
  /\ kpc = "idle"

IdleOther ==
  /\ other_file = [st |-> "missing", json |-> JNull]
  /\ other_result = None
  /\ opc = "idle"

NoHistoryCall == HistoryReturn(None, None, 0, 0)

\* no GitRepoUpdater has been made.
IdleGit ==
  /\ base_repo_url = <<>>
  /\ local_path = <<>>
  /\ username = <<>>
  /\ token = <<>>
  /\ authenticated_repo_url = <<>>
  /\ path_exists = FALSE
  /\ is_git_repo = FALSE
  /\ info_files = 0
  /\ cwd = <<>>
  /\ original_cwd = <<>>
  /\ gpc = "idle"
  /\ cp_return = None
  /\ push_error = None
  /\ commands = <<>>
  /\ calls = <<>>
  /\ stdout = <<>>
  /\ run_update_return = None
  /\ caller = "none"

InitMain(bound) ==
  /\ defined = bound
  /\ dir_exists \in BOOLEAN
  /\ dir_writable \in BOOLEAN
  /\ fs \in Directories(MaxEntries)
  /\ dir_exists \/ (fs = <<>> /\ ~dir_writable)
  /\ pc = "start"
  /\ exit_status = None
  /\ exception = None
  /\ history_files = <<>>
  /\ other_json_files = <<>>
  /\ results = <<>>
  /\ all_history_data = <<>>
  /\ total_history_items_overall = 0
  /\ successfully_processed_history_files = 0
  /\ hf_done = 0
  /\ last_history = NoHistoryCall
  /\ all_other_data = <<>>
  /\ successfully_parsed_other_files = 0
  /\ ojf_done = 0
  /\ parsed_content = None
  /\ summary = None

IdleMain ==
  /\ defined = {}
  /\ dir_exists = FALSE
  /\ dir_writable = FALSE
  /\ fs = <<>>
  /\ pc = "idle"
  /\ exit_status = None
  /\ exception = None
  /\ history_files = <<>>
  /\ other_json_files = <<>>
  /\ results = <<>>
  /\ all_history_data = <<>>
  /\ total_history_items_overall = 0
  /\ successfully_processed_history_files = 0
  /\ hf_done = 0
  /\ last_history = NoHistoryCall
  /\ all_other_data = <<>>
  /\ successfully_parsed_other_files = 0
  /\ ojf_done = 0
  /\ parsed_content = None
  /\ summary = None

\* the process ends on an uncaught exception (traceback, status 1).
Uncaught(exc) ==
  /\ exception' = Some(exc)
  /\ exit_status' = Some(1)
  /\ pc' = "exit"

\* lines 80-82: the directory is not there: sys.exit(1).
DirMissing ==
  /\ pc = "start"
  /\ ~dir_exists
  /\ exit_status' = Some(1)
  /\ pc' = "exit"
  /\ UNCHANGED <<gitVars, keyVars, otherVars, envVars, fs, exception, history_files,
                 other_json_files, results, historyVars, otherLoopVars, summary>>

\* line 85: history_files, other_json_files = identify_files(args.dir)
Identified(lists) ==
  /\ history_files' = lists.history_files
  /\ other_json_files' = lists.other_json_files

\* lines 84-88: identify_files(args.dir).
IdentifyFiles ==
  /\ pc = "start"
  /\ dir_exists
  /\ Identified(identify_files(dir_exists, fs))
  /\ pc' = "parser_test"
  /\ UNCHANGED <<gitVars, keyVars, otherVars, envVars, fs, exit_status, exception, results,
                 historyVars, otherLoopVars, summary>>

RECURSIVE ParseAll(_)
ParseAll(keys) ==
  IF keys = <<>> THEN <<>>
  ELSE <<parse_datetime_from_string_key(keys[1])>> \o ParseAll(Tail(keys))

\* lines 90-116: the datetime parser test.
ParserTest ==
  /\ pc = "parser_test"
  /\ results' = ParseAll(test_keys)
  /\ pc' = "history_setup"
  /\ UNCHANGED <<gitVars, keyVars, otherVars, envVars, fs, exit_status, exception, history_files,
                 other_json_files, historyVars, otherLoopVars, summary>>

\* lines 141-143, 157-159: the files written join the directory and the list.
HistoryWritten(written) ==
  /\ fs' = fs \o written
  /\ history_files' = history_files \o Names(written)

\* lines 118-166: the accumulators, and the dummy files when none was found.
HistorySetup ==
  /\ pc = "history_setup"
  /\ all_history_data' = <<>>
  /\ total_history_items_overall' = 0
  /\ successfully_processed_history_files' = 0
  /\ hf_done' = 0
  /\ HistoryWritten(IF history_files = <<>> /\ dir_exists
                    THEN HistoryDummies(dir_writable) ELSE <<>>)
  /\ pc' = "history_loop"
  /\ UNCHANGED <<gitVars, keyVars, otherVars, envVars, exit_status, exception, other_json_files,
                 results, last_history, otherLoopVars, summary>>

\* lines 170-187: ret is what parse_history_file(hf_path, ...) gave.
HistoryLoopBody(ret) ==
  IF "parse_history_file" \notin defined
  THEN /\ Uncaught("NameError")
       /\ UNCHANGED historyVars
  ELSE IF ret.raised # None
  THEN /\ Uncaught(ret.raised[1])
       /\ UNCHANGED historyVars
  ELSE /\ last_history' = ret
       /\ hf_done' = hf_done + 1
       /\ IF ret.parsed_data # None
          THEN /\ all_history_data' = MergeHistory(all_history_data, ret.parsed_data[1])
               /\ total_history_items_overall' = total_history_items_overall + ret.item_count
               /\ successfully_processed_history_files' =
                    successfully_processed_history_files + 1
          ELSE UNCHANGED <<all_history_data, total_history_items_overall,
                           successfully_processed_history_files>>
       /\ UNCHANGED <<pc, exit_status, exception>>

\* lines 168-187: one iteration of the history loop.
ParseHistoryFile ==
  /\ pc = "history_loop"
  /\ hf_done < Len(history_files)
  /\ HistoryLoopBody(parse_history_file(ReadFile(fs, history_files[hf_done + 1])))
  /\ UNCHANGED <<gitVars, keyVars, otherVars, envVars, fs, history_files, other_json_files,
                 results, otherLoopVars, summary>>

\* lines 210-212, 220-222: the files written join the directory and the list.
OtherWritten(written) ==
  /\ fs' = fs \o written
  /\ other_json_files' = other_json_files \o Names(written)

\* lines 195-229: the accumulators, and the dummy files when none was found.
OtherSetup ==
  /\ pc = "history_loop"
  /\ hf_done = Len(history_files)
  /\ all_other_data' = <<>>
  /\ successfully_parsed_other_files' = 0
  /\ ojf_done' = 0
  /\ OtherWritten(IF other_json_files = <<>> /\ dir_exists
                  THEN OtherDummies(dir_writable) ELSE <<>>)
  /\ pc' = "other_loop"
  /\ UNCHANGED <<gitVars, keyVars, otherVars, envVars, exit_status, exception, history_files,
                 results, historyVars, parsed_content, summary>>

\* (mutant) a symbol already in all_other_data keeps its first details.
OtherLoopBody_keepfirst(ret) ==
  IF "parse_other_json_file" \notin defined
  THEN /\ Uncaught("NameError")
       /\ UNCHANGED otherLoopVars
  ELSE /\ parsed_content' = ret
       /\ ojf_done' = ojf_done + 1
       /\ IF ret # None
          THEN /\ all_other_data' = IF DictHas(all_other_data, ret[1][1].s)
                                    THEN all_other_data
                                    ELSE DictSet(all_other_data, ret[1][1].s, ret[1][2])
               /\ successfully_parsed_other_files' = successfully_parsed_other_files + 1
          ELSE UNCHANGED <<all_other_data, successfully_parsed_other_files>>
       /\ UNCHANGED <<pc, exit_status, exception>>

\* lines 233-241: ret is what parse_other_json_file(ojf_path) gave.
OtherLoopBody(ret) ==
  IF "parse_other_json_file" \notin defined
  THEN /\ Uncaught("NameError")
       /\ UNCHANGED otherLoopVars
  ELSE /\ parsed_content' = ret
       /\ ojf_done' = ojf_done + 1
       /\ IF ret # None
          THEN /\ all_other_data' = DictSet(all_other_data, ret[1][1].s, ret[1][2])
               /\ successfully_parsed_other_files' = successfully_parsed_other_files + 1
          ELSE UNCHANGED <<all_other_data, successfully_parsed_other_files>>
       /\ UNCHANGED <<pc, exit_status, exception>>

\* lines 231-241: one iteration of the other-file loop.
ParseOtherFile ==
  /\ pc = "other_loop"
  /\ ojf_done < Len(other_json_files)
  /\ OtherLoopBody(parse_other_json_file(ReadFile(fs, other_json_files[ojf_done + 1])))
  /\ UNCHANGED <<gitVars, keyVars, otherVars, envVars, fs, history_files, other_json_files,
                 results, historyVars, summary>>

(***************************************************************************)
(* print_data_summary (lines 254-310): what it prints, as the counts of    *)
(* lines 261-262 and 290-291 and the lines of the two samples.  A line is  *)
(* its kind with the text, date, value and number it shows.                *)
(***************************************************************************)
max_symbols_to_print == 3
max_entries_per_type == 2

NoDate == [year |-> 0, month |-> 0, day |-> 0]

Line(kind, text, date, value, n) ==
  [kind |-> kind, text |-> text, date |-> date, value |-> value, n |-> n]

\* datetime.date.__lt__
DateBefore(a, b) ==
  \/ a.year < b.year
  \/ a.year = b.year /\ a.month < b.month
  \/ a.year = b.year /\ a.month = b.month /\ a.day < b.day

RECURSIVE InsertDate(_, _)
InsertDate(dates, d) ==
  IF dates = <<>> THEN <<d>>
  ELSE IF DateBefore(d, dates[1]) THEN <<d>> \o dates
  ELSE <<dates[1]>> \o InsertDate(Tail(dates), d)

\* (mutant) the keys left in insertion order.
RECURSIVE sorted_unsorted(_)
sorted_unsorted(keys) ==
  IF keys = <<>> THEN <<>> ELSE <<keys[1]>> \o sorted_unsorted(Tail(keys))

\* line 277: sorted(type_data_dict.keys())
RECURSIVE sorted(_)
sorted(keys) ==
  IF keys = <<>> THEN <<>> ELSE InsertDate(sorted(Tail(keys)), keys[1])

RECURSIVE KeyList(_)
KeyList(d) == IF d = <<>> THEN <<>> ELSE <<d[1][1]>> \o KeyList(Tail(d))

\* lines 283-287: for entry_idx, date_obj in enumerate(sorted_dates)
RECURSIVE EntryLines(_, _, _, _)
EntryLines(data_type_key, type_data_dict, sorted_dates, entry_idx) ==
  IF entry_idx >= Len(sorted_dates) THEN <<>>
  ELSE IF entry_idx >= max_entries_per_type
  THEN << Line("more_entries", data_type_key, NoDate, JNull,
               Len(type_data_dict) - max_entries_per_type) >>
  ELSE << Line("entry", data_type_key, sorted_dates[entry_idx + 1],
               DictGet(type_data_dict, sorted_dates[entry_idx + 1]), 0) >>
       \o EntryLines(data_type_key, type_data_dict, sorted_dates, entry_idx + 1)

\* lines 272-287: for data_type_key, type_data_dict in symbol_data.items()
RECURSIVE CategoryLines(_)
CategoryLines(symbol_data) ==
  IF symbol_data = <<>> THEN <<>>
  ELSE << Line("category", symbol_data[1][1], NoDate, JNull, 0) >>
       \o EntryLines(symbol_data[1][1], symbol_data[1][2],
                     sorted(KeyList(symbol_data[1][2])), 0)
       \o CategoryLines(Tail(symbol_data))

\* lines 267-287: for i, (symbol, symbol_data) in enumerate(all_history_data.items())
RECURSIVE HistoryLines(_, _)
HistoryLines(history, i) ==
  IF i >= Len(history) THEN <<>>
  ELSE IF i >= max_symbols_to_print
  THEN << Line("more_symbols", <<>>, NoDate, JNull, Len(history) - max_symbols_to_print) >>
  ELSE << Line("symbol", history[i + 1][1], NoDate, JNull, 0) >>
       \o CategoryLines(history[i + 1][2])
       \o HistoryLines(history, i + 1)

N_A == JStr(<<"N", "/", "A">>)

\* dict.get(key, 'N/A')
Get(d, k) == IF DictHas(d, k) THEN DictGet(d, k) ELSE N_A

summaryDetail == <<"s", "u", "m", "m", "a", "r", "y", "D", "e", "t", "a", "i", "l">>
quoteType == <<"q", "u", "o", "t", "e", "T", "y", "p", "e">>
previousClose == <<"p", "r", "e", "v", "i", "o", "u", "s", "C", "l", "o", "s", "e">>
volume == <<"v", "o", "l", "u", "m", "e">>
shortName == <<"s", "h", "o", "r", "t", "N", "a", "m", "e">>
exchange == <<"e", "x", "c", "h", "a", "n", "g", "e">>

\* lines 302-304, 308-309: sd.get(field, 'N/A') for each field shown.
RECURSIVE FieldLines(_, _)
FieldLines(section_dict, fields) ==
  IF fields = <<>> THEN <<>>
  ELSE << Line("field", fields[1], NoDate, Get(section_dict, fields[1]), 0) >>
       \o FieldLines(section_dict, Tail(fields))

\* lines 299-309: the sub-fields shown of one of the two known sections.
SectionLines(details_dict, section, fields) ==
  IF DictHas(details_dict, section) /\ DictGet(details_dict, section).t = "obj"
  THEN << Line("section", section, NoDate, JNull, 0) >>
       \o FieldLines(DictGet(details_dict, section).items, fields)
  ELSE <<>>

\* lines 293-309: for i, (symbol, details_dict) in enumerate(all_other_data.items())
RECURSIVE OtherLines(_, _)
OtherLines(other, i) ==
  IF i >= Len(other) THEN <<>>
  ELSE IF i >= max_symbols_to_print
  THEN << Line("more_symbols", <<>>, NoDate, JNull, Len(other) - max_symbols_to_print) >>
  ELSE << Line("symbol", other[i + 1][1], NoDate, JNull, 0) >>
       \o SectionLines(other[i + 1][2].items, summaryDetail, <<previousClose, open, volume>>)
       \o SectionLines(other[i + 1][2].items, quoteType, <<shortName, exchange>>)
       \o OtherLines(other, i + 1)

print_data_summary(history, total_history_items, other, num_history_files_processed, num_other_files_processed) ==
  [num_history_files_processed |-> num_history_files_processed,
   history_symbols |-> Len(history),
   total_history_items |-> total_history_items,
   history_lines |-> HistoryLines(history, 0),
   num_other_files_processed |-> num_other_files_processed,
   other_symbols |-> Len(other),
   other_lines |-> OtherLines(other, 0)]

\* lines 248-252: print_data_summary(...), then the end of the script.
Summarize ==
  /\ pc = "other_loop"
  /\ ojf_done = Len(other_json_files)
  /\ IF "print_data_summary" \notin defined
     THEN /\ Uncaught("NameError")
          /\ UNCHANGED summary
     ELSE /\ summary' = Some(print_data_summary(
                                all_history_data, total_history_items_overall, all_other_data,
                                successfully_processed_history_files,
                                successfully_parsed_other_files))
          /\ exit_status' = Some(0)
          /\ pc' = "exit"
          /\ UNCHANGED exception
  /\ UNCHANGED <<gitVars, keyVars, otherVars, envVars, fs, history_files, other_json_files,
                 results, historyVars, otherLoopVars>>

NextMain ==
  \/ DirMissing
  \/ IdentifyFiles
  \/ ParserTest
  \/ HistorySetup
  \/ ParseHistoryFile
  \/ OtherSetup
  \/ ParseOtherFile
  \/ Summarize

\* results_parser.py run as a program: python results_parser.py --dir DIR.
InitScript == IdleKey /\ IdleOther /\ IdleGit /\ InitMain(DefinedAboveMain)

SpecScript == InitScript /\ [][NextMain]_vars

\* the statements of the __main__ block with every function of the module bound
\* (the block run in a namespace that already holds the module's definitions).
InitLoop ==
  IdleKey /\ IdleOther /\ IdleGit /\ InitMain(DefinedAboveMain \cup DefinedBelowMain)

SpecLoop == InitLoop /\ [][NextMain]_vars

(***************************************************************************)
(* The parser applied to one key (the calls of lines 99-107).              *)
(***************************************************************************)
InitKey ==
  /\ key_src \in KeyInputs
  /\ key_string = KeyText(key_src)
  /\ key_result = <<>>
  /\ kpc = "call"
  /\ IdleOther
  /\ IdleMain
  /\ IdleGit

ParseKey ==
  /\ kpc = "call"
  /\ key_result' = parse_datetime_from_string_key(key_string)
  /\ kpc' = "ret"
  /\ UNCHANGED <<key_src, key_string, otherVars, mainVars, gitVars>>

NextKey == ParseKey

SpecKey == InitKey /\ [][NextKey]_vars

(***************************************************************************)
(* parse_other_json_file applied to one file (the call of line 233).  The  *)
(* decoded values: the scalars, objects and lists of Items, the lists of   *)
(* up to MaxInner of them, and those lists as the first element of a       *)
(* top-level list with one of OuterTails after them.                       *)
(***************************************************************************)
MaxInner == 3

Items ==
  { JNull, JNum(5), JStr(AAPL), JStr(<<>>), JObj(<<>>),
    JObj(<< <<name, JStr(<<"A">>)>> >>), JList(<<>>) }

RECURSIVE Lists(_)
Lists(n) ==
  IF n = 0 THEN {<<>>}
  ELSE Lists(n - 1) \cup
       {Append(l, x) : l \in {y \in Lists(n - 1) : Len(y) = n - 1}, x \in Items}

OuterTails == { <<>>, <<JNum(1)>>, <<JList(<<JStr(MSFT), JObj(<<>>)>>)>> }

Decoded ==
  Items \cup {JList(<<first>> \o tail) :
               first \in Items \cup {JList(l) : l \in Lists(MaxInner)},
               tail \in OuterTails}

OtherInputs ==
  {[st |-> "ok", json |-> j] : j \in Decoded}
  \cup {[st |-> "badjson", json |-> JNull], [st |-> "missing", json |-> JNull]}

InitOther ==
  /\ other_file \in OtherInputs
  /\ other_result = None
  /\ opc = "call"
  /\ IdleKey
  /\ IdleMain
  /\ IdleGit

ParseOther ==
  /\ opc = "call"
  /\ other_result' = parse_other_json_file(other_file)
  /\ opc' = "ret"
  /\ UNCHANGED <<other_file, keyVars, mainVars, gitVars>>

NextOther == ParseOther

SpecOther == InitOther /\ [][NextOther]_vars

(***************************************************************************)
(* identify_files applied to one directory (the call of line 85, or a call *)
(* from outside the script, where the path may be no directory).  The      *)
(* listing holds up to MaxListing entries, files or not, named by their    *)
(* place with one of the endings of Endings.                               *)
(***************************************************************************)
MaxListing == 3

Endings ==
  { HISTORY_SUFFIX,
    JSON_SUFFIX,
    <<"h", "i", "s", "t", "o", "r", "y">> \o JSON_SUFFIX,
    <<"_", "h", "i", "s", "t", "o", "r", "y", ".", "J", "S", "O", "N">>,
    HISTORY_SUFFIX \o <<".", "b", "a", "k">>,
    <<".", "t", "x", "t">> }

RECURSIVE Listings(_)
Listings(n) ==
  IF n = 0 THEN {<<>>}
  ELSE Listings(n - 1) \cup
       { Append(d, IF isfile THEN File(<<Letters[n]>> \o e, "ok", JNull)
                             ELSE SubDir(<<Letters[n]>> \o e)) :
           d \in {x \in Listings(n - 1) : Len(x) = n - 1},
           e \in Endings, isfile \in BOOLEAN }

InitIdentify ==
  /\ IdleKey
  /\ IdleOther
  /\ defined = DefinedAboveMain \cup DefinedBelowMain
  /\ dir_exists \in BOOLEAN
  /\ dir_writable = FALSE
  /\ fs \in Listings(MaxListing)
  /\ dir_exists \/ fs = <<>>
  /\ pc = "identify"
  /\ exit_status = None
  /\ exception = None
  /\ history_files = <<>>
  /\ other_json_files = <<>>
  /\ results = <<>>
  /\ all_history_data = <<>>
  /\ total_history_items_overall = 0
  /\ successfully_processed_history_files = 0
  /\ hf_done = 0
  /\ last_history = NoHistoryCall
  /\ all_other_data = <<>>
  /\ successfully_parsed_other_files = 0
  /\ ojf_done = 0
  /\ parsed_content = None
  /\ summary = None
  /\ IdleGit

Identify ==
  /\ pc = "identify"
  /\ Identified(identify_files(dir_exists, fs))
  /\ pc' = "identified"
  /\ UNCHANGED <<gitVars, keyVars, otherVars, envVars, fs, exit_status, exception, results,
                 historyVars, otherLoopVars, summary>>

NextIdentify == Identify

SpecIdentify == InitIdentify /\ [][NextIdentify]_vars

(***************************************************************************)
(* print_data_summary applied to aggregates (the call of line 249).  The   *)
(* history aggregate holds up to MaxSummarySymbols symbols, the odd ones   *)
(* with one choice of categories and the even ones with another; a         *)
(* category holds up to MaxDates of the dates of DatePool, inserted in any *)
(* order.                                                                  *)
(***************************************************************************)
MaxSummarySymbols == 4
MaxDates == 3

Date(y, m, d) == [year |-> y, month |-> m, day |-> d]

DatePool ==
  << Date(2023, 1, 10), Date(2022, 12, 31), Date(2023, 1, 2), Date(2023, 2, 1),
     Date(2021, 6, 15) >>

\* the category dicts of n entries: the dates in order of insertion.
RECURSIVE DateDicts(_)
DateDicts(n) ==
  IF n = 0 THEN {<<>>}
  ELSE { Append(d, <<DatePool[i], JNum(DatePool[i].day)>>) :
           d \in DateDicts(n - 1),
           i \in 1..(IF MaxDates < Len(DatePool) THEN MaxDates ELSE Len(DatePool)) }

Distinct(d) == Cardinality({d[i][1] : i \in 1..Len(d)}) = Len(d)

CategoryDicts == UNION { {d \in DateDicts(n) : Distinct(d)} : n \in 1..MaxDates }

SymbolDatas ==
  { << <<close, d>> >> : d \in CategoryDicts }
  \cup { << <<open, <<d[1]>> >>, <<close, d>> >> : d \in {x \in CategoryDicts : Len(x) = 2} }

SymbolNames == << SymA, SymB, AAPL, MSFT, <<"C">>, <<"D">> >>

RECURSIVE HistoryRecordOf(_, _, _)
HistoryRecordOf(n, odd, even) ==
  IF n = 0 THEN <<>>
  ELSE Append(HistoryRecordOf(n - 1, odd, even),
              <<SymbolNames[n], IF n % 2 = 1 THEN odd ELSE even>>)

RECURSIVE EntryCount(_)
EntryCount(symbol_data) ==
  IF symbol_data = <<>> THEN 0 ELSE Len(symbol_data[1][2]) + EntryCount(Tail(symbol_data))

RECURSIVE ItemCount(_)
ItemCount(history) ==
  IF history = <<>> THEN 0 ELSE EntryCount(history[1][2]) + ItemCount(Tail(history))

OtherDetails ==
  << JObj(<< <<name, JStr(<<"A">>)>> >>),
     JObj(<< <<summaryDetail, JObj(<< <<open, JNum(3)>>, <<volume, JNum(7)>> >>)>>,
             <<quoteType, JStr(<<"E">>)>> >>),
     JObj(<< <<quoteType, JObj(<< <<shortName, JStr(<<"B">>)>> >>)>> >>),
     JObj(<<>>) >>

RECURSIVE OtherRecordOf(_)
OtherRecordOf(n) ==
  IF n = 0 THEN <<>>
  ELSE Append(OtherRecordOf(n - 1), <<SymbolNames[n], OtherDetails[((n - 1) % 4) + 1]>>)

InitSummary ==
  /\ IdleKey
  /\ IdleOther
  /\ defined = DefinedAboveMain \cup DefinedBelowMain
  /\ dir_exists = TRUE
  /\ dir_writable = FALSE
  /\ fs = <<>>
  /\ pc = "other_loop"
  /\ exit_status = None
  /\ exception = None
  /\ history_files = <<>>
  /\ other_json_files = <<>>
  /\ results = <<>>
  /\ \E n \in 0..MaxSummarySymbols : \E odd \in SymbolDatas : \E even \in SymbolDatas :
       /\ all_history_data = HistoryRecordOf(n, odd, even)
       /\ total_history_items_overall = ItemCount(all_history_data)
       /\ successfully_processed_history_files = n
       /\ all_other_data = OtherRecordOf(n)
       /\ successfully_parsed_other_files = n
  /\ hf_done = 0
  /\ last_history = NoHistoryCall
  /\ ojf_done = 0
  /\ parsed_content = None
  /\ summary = None
  /\ IdleGit

NextSummary == Summarize

SpecSummary == InitSummary /\ [][NextSummary]_vars

(***************************************************************************)
(* git_auto_script.py.  Text: str.lower, the in operator and str.split.    *)
(***************************************************************************)
UPPER ==
  <<"A", "B", "C", "D", "E", "F", "G", "H", "I", "J", "K", "L", "M", "N", "O", "P", "Q",
    "R", "S", "T", "U", "V", "W", "X", "Y", "Z">>
LOWER ==
  <<"a", "b", "c", "d", "e", "f", "g", "h", "i", "j", "k", "l", "m", "n", "o", "p", "q",
    "r", "s", "t", "u", "v", "w", "x", "y", "z">>

LowerChar(c) ==
  IF \E i \in 1..Len(UPPER) : UPPER[i] = c
  THEN LOWER[CHOOSE i \in 1..Len(UPPER) : UPPER[i] = c]
  ELSE c

\* str.lower
RECURSIVE lower(_)
lower(s) == IF s = <<>> THEN <<>> ELSE <<LowerChar(s[1])>> \o lower(Tail(s))

StartsAt(s, i, lit) == i + Len(lit) - 1 <= Len(s) /\ SubSeq(s, i, i + Len(lit) - 1) = lit

\* str.find, counting from 1: 0 when lit is not in s.
RECURSIVE Find(_, _, _)
Find(s, lit, i) ==
  IF i + Len(lit) - 1 > Len(s) THEN 0
  ELSE IF StartsAt(s, i, lit) THEN i
  ELSE Find(s, lit, i + 1)

\* lit in s
Contains(s, lit) == Find(s, lit, 1) # 0

\* str.split(sep)
RECURSIVE split(_, _)
SplitAt(s, sep, i) ==
  IF i = 0 THEN <<s>>
  ELSE <<SubSeq(s, 1, i - 1)>> \o split(SubSeq(s, i + Len(sep), Len(s)), sep)

split(s, sep) == SplitAt(s, sep, Find(s, sep, 1))

(***************************************************************************)
(* GitRepoUpdater.__init__ (lines 80-95).                                  *)
(***************************************************************************)
SchemeSep == <<":", "/", "/">>

\* lines 88-91
HostAndPath(url_parts) == IF Len(url_parts) > 1 THEN url_parts[2] ELSE url_parts[1]

\* line 93
AuthenticatedUrl(base, user, secret) ==
  <<"h", "t", "t", "p", "s">> \o SchemeSep \o user \o <<":">> \o secret \o <<"@">>
  \o HostAndPath(split(base, SchemeSep))

(***************************************************************************)
(* What subprocess.run(["git", ...], check=True, capture_output=True) can  *)
(* do: return ("ok"), raise CalledProcessError with the command's stdout   *)
(* and stderr, raise FileNotFoundError (no git), or raise another OSError. *)
(* cause says why git failed; the script does not see it.                  *)
(***************************************************************************)
Run(ended, out, err, cause) == [ended |-> ended, out |-> out, err |-> err, cause |-> cause]

Ok == Run("ok", <<>>, <<>>, "")

NoGit == Run("FileNotFoundError", <<>>, <<>>, "")

Refused == Run("OSError", <<>>, <<>>, "")

Failed(out, err, cause) == Run("CalledProcessError", out, err, cause)

AuthFailed ==
  <<"f", "a", "t", "a", "l", ":", " ", "A", "u", "t", "h", "e", "n", "t", "i", "c", "a",
    "t", "i", "o", "n", " ", "f", "a", "i", "l", "e", "d">>

NonFastForward ==
  <<"!", " ", "[", "r", "e", "j", "e", "c", "t", "e", "d", "]", " ", "m", "a", "i", "n",
    " ", "-", ">", " ", "m", "a", "i", "n", " ", "(", "n", "o", "n", "-", "f", "a", "s",
    "t", "-", "f", "o", "r", "w", "a", "r", "d", ")", " ", "e", "r", "r", "o", "r", ":",
    " ", "f", "a", "i", "l", "e", "d", " ", "t", "o", " ", "p", "u", "s", "h", " ", "s",
    "o", "m", "e", " ", "r", "e", "f", "s">>

FetchFirst ==
  <<"!", " ", "[", "r", "e", "j", "e", "c", "t", "e", "d", "]", " ", "m", "a", "i", "n",
    " ", "-", ">", " ", "m", "a", "i", "n", " ", "(", "f", "e", "t", "c", "h", " ", "f",
    "i", "r", "s", "t", ")", " ", "e", "r", "r", "o", "r", ":", " ", "f", "a", "i", "l",
    "e", "d", " ", "t", "o", " ", "p", "u", "s", "h", " ", "s", "o", "m", "e", " ", "r",
    "e", "f", "s">>

NoRefspec ==
  <<"e", "r", "r", "o", "r", ":", " ", "s", "r", "c", " ", "r", "e", "f", "s", "p", "e",
    "c", " ", "m", "a", "i", "n", " ", "d", "o", "e", "s", " ", "n", "o", "t", " ", "m",
    "a", "t", "c", "h", " ", "a", "n", "y", " ", "e", "r", "r", "o", "r", ":", " ", "f",
    "a", "i", "l", "e", "d", " ", "t", "o", " ", "p", "u", "s", "h", " ", "s", "o", "m",
    "e", " ", "r", "e", "f", "s", " ", "t", "o">>

HookDeclined ==
  <<"!", " ", "[", "r", "e", "m", "o", "t", "e", " ", "r", "e", "j", "e", "c", "t", "e",
    "d", "]", " ", "m", "a", "i", "n", " ", "-", ">", " ", "m", "a", "i", "n", " ", "(",
    "p", "r", "e", "-", "r", "e", "c", "e", "i", "v", "e", " ", "h", "o", "o", "k", " ",
    "d", "e", "c", "l", "i", "n", "e", "d", ")">>

NothingToCommit ==
  <<"O", "n", " ", "b", "r", "a", "n", "c", "h", " ", "m", "a", "i", "n", " ", "n", "o",
    "t", "h", "i", "n", "g", " ", "t", "o", " ", "c", "o", "m", "m", "i", "t", ",", " ",
    "w", "o", "r", "k", "i", "n", "g", " ", "t", "r", "e", "e", " ", "c", "l", "e", "a",
    "n">>

NoChangesAdded ==
  <<"n", "o", " ", "c", "h", "a", "n", "g", "e", "s", " ", "a", "d", "d", "e", "d", " ",
    "t", "o", " ", "c", "o", "m", "m", "i", "t">>

NoIdentity ==
  <<"A", "u", "t", "h", "o", "r", " ", "i", "d", "e", "n", "t", "i", "t", "y", " ", "u",
    "n", "k", "n", "o", "w", "n">>

Conflict ==
  <<"C", "O", "N", "F", "L", "I", "C", "T", " ", "(", "c", "o", "n", "t", "e", "n", "t",
    ")", ":", " ", "M", "e", "r", "g", "e", " ", "c", "o", "n", "f", "l", "i", "c", "t">>

PlainRuns == {Ok, NoGit, Refused, Failed(<<>>, AuthFailed, "auth")}

CommitRuns ==
  { Ok, NoGit, Refused,
    Failed(NothingToCommit, <<>>, "nothing"),
    Failed(NoChangesAdded, <<>>, "nothing"),
    Failed(<<>>, NothingToCommit, "nothing"),
    Failed(<<>>, NoIdentity, "identity") }

PushRuns ==
  { Ok, NoGit, Refused,
    Failed(<<>>, NonFastForward, "non-fast-forward"),
    Failed(<<>>, FetchFirst, "non-fast-forward"),
    Failed(<<>>, NoRefspec, "refspec"),
    Failed(<<>>, HookDeclined, "hook"),
    Failed(<<>>, AuthFailed, "auth") }

PullRebaseRuns == PlainRuns \cup {Failed(<<>>, Conflict, "conflict")}

(***************************************************************************)
(* The script's prints: the fixed text of the message and the values it    *)
(* interpolates; and the log of the git commands run.                      *)
(***************************************************************************)
Msg(text, args) == [text |-> text, args |-> args]

GitNotFound == Msg("Error: git command not found.", <<>>)

Ran(cmd, url, r) == commands' = Append(commands, [cmd |-> cmd, url |-> url, run |-> r])

\* line 275
commit_message ==
  <<"A", "u", "t", "o", "m", "a", "t", "e", "d", " ", "c", "l", "a", "s", "s", "-", "b",
    "a", "s", "e", "d", " ", "u", "p", "d", "a", "t", "e", ":", " ", "i", "n", "f", "o",
    " ", "f", "i", "l", "e", "s", " ", "t", "o", " ", "o", "u", "t", "p", "u", "t", " ",
    "d", "i", "r", "e", "c", "t", "o", "r", "y">>

\* line 95: os.path.join(self.local_path, "output")
output_dir == local_path \o <<"/", "o", "u", "t", "p", "u", "t">>

\* line 152: range(1, 6)
InfoFileCount == 5

(***************************************************************************)
(* run_update (lines 272-304): what it does with the value a step          *)
(* returned.                                                               *)
(***************************************************************************)
\* (mutant) run_update going on to the next step whatever the step returned.
StepReturned_goeson(method, value, msgs, done, failed, next_pc) ==
  /\ calls' = Append(calls, <<method, value>>)
  /\ stdout' = stdout \o msgs \o <<Msg(done, <<>>)>>
  /\ gpc' = next_pc
  /\ run_update_return' = run_update_return

\* lines 278-286: the step printed msgs and returned value.
StepReturned(method, value, msgs, done, failed, next_pc) ==
  /\ calls' = Append(calls, <<method, value>>)
  /\ IF value
     THEN /\ stdout' = stdout \o msgs \o <<Msg(done, <<>>)>>
          /\ gpc' = next_pc
          /\ run_update_return' = run_update_return
     ELSE /\ stdout' = stdout \o msgs \o <<Msg(failed, <<>>)>>
          /\ gpc' = "returned"
          /\ run_update_return' = Some(FALSE)

\* lines 273-275
RunUpdate ==
  /\ gpc = "run_update"
  /\ stdout' = Append(stdout, Msg("Starting repository update process...", <<>>))
  /\ gpc' = "clone_or_pull_repo"
  /\ UNCHANGED <<base_repo_url, local_path, username, token, authenticated_repo_url,
                 path_exists, is_git_repo, info_files, cwd, original_cwd, cp_return,
                 push_error, commands, calls, run_update_return, caller>>
  /\ UNCHANGED <<keyVars, otherVars, mainVars>>

(***************************************************************************)
(* clone_or_pull_repo (lines 97-138).                                      *)
(***************************************************************************)
ClonedOrPulled(value, msgs) ==
  StepReturned("clone_or_pull_repo", value, msgs, "Repository cloned/pulled successfully.",
               "Error: Failed to clone or pull repository.", "create_info_files")

\* lines 112-120, 136-138: r is how git pull origin main ended.
Pulled(r) ==
  CASE r.ended = "ok" ->
         ClonedOrPulled(TRUE, << Msg("Path exists and is a git repository. Pulling...",
                                     <<local_path>>),
                                 Msg("Successfully pulled repository in", <<local_path>>) >>)
    [] r.ended = "CalledProcessError" ->
         ClonedOrPulled(FALSE, << Msg("Path exists and is a git repository. Pulling...",
                                      <<local_path>>),
                                  Msg("Error pulling repository in", <<local_path, r.err>>) >>)
    [] r.ended = "FileNotFoundError" ->
         ClonedOrPulled(FALSE, << Msg("Path exists and is a git repository. Pulling...",
                                      <<local_path>>),
                                  GitNotFound >>)
    [] r.ended = "OSError" ->
         ClonedOrPulled(FALSE, << Msg("Path exists and is a git repository. Pulling...",
                                      <<local_path>>),
                                  Msg("An unexpected error occurred in clone_or_pull_repo",
                                      <<>>) >>)

\* lines 104-120
Pull ==
  /\ gpc = "clone_or_pull_repo"
  /\ path_exists /\ is_git_repo
  /\ \E r \in PlainRuns :
       /\ Ran("pull", <<"o", "r", "i", "g", "i", "n">>, r)
       /\ Pulled(r)
  /\ UNCHANGED <<base_repo_url, local_path, username, token, authenticated_repo_url,
                 path_exists, is_git_repo, info_files, cwd, original_cwd, cp_return,
                 push_error, caller>>
  /\ UNCHANGED <<keyVars, otherVars, mainVars>>

\* lines 121-123
NotARepository ==
  /\ gpc = "clone_or_pull_repo"
  /\ path_exists /\ ~is_git_repo
  /\ ClonedOrPulled(FALSE, << Msg("Error: Path exists but is not a git repository.",
                                  <<local_path>>) >>)
  /\ UNCHANGED <<base_repo_url, local_path, username, token, authenticated_repo_url,
                 path_exists, is_git_repo, info_files, cwd, original_cwd, cp_return,
                 push_error, commands, caller>>
  /\ UNCHANGED <<keyVars, otherVars, mainVars>>

\* lines 125-135, 136-138: r is how git clone <authenticated url> <path> ended.
Cloned(r) ==
  CASE r.ended = "ok" ->
         /\ path_exists' = TRUE
         /\ is_git_repo' = TRUE
         /\ ClonedOrPulled(TRUE, << Msg("Path does not exist. Cloning repository from ... into",
                                        <<local_path, authenticated_repo_url, local_path>>),
                                    Msg("Successfully cloned repository from ... to",
                                        <<authenticated_repo_url, local_path>>) >>)
    [] r.ended = "CalledProcessError" ->
         /\ UNCHANGED <<path_exists, is_git_repo>>
         /\ ClonedOrPulled(FALSE, << Msg("Path does not exist. Cloning repository from ... into",
                                         <<local_path, authenticated_repo_url, local_path>>),
                                     Msg("Error cloning repository:", <<r.err>>) >>)
    [] r.ended = "FileNotFoundError" ->
         /\ UNCHANGED <<path_exists, is_git_repo>>
         /\ ClonedOrPulled(FALSE, << Msg("Path does not exist. Cloning repository from ... into",
                                         <<local_path, authenticated_repo_url, local_path>>),
                                     GitNotFound >>)
    [] r.ended = "OSError" ->
         /\ UNCHANGED <<path_exists, is_git_repo>>
         /\ ClonedOrPulled(FALSE, << Msg("Path does not exist. Cloning repository from ... into",
                                         <<local_path, authenticated_repo_url, local_path>>),
                                     Msg("An unexpected error occurred in clone_or_pull_repo",
                                         <<>>) >>)

\* lines 124-135
Clone ==
  /\ gpc = "clone_or_pull_repo"
  /\ ~path_exists
  /\ \E r \in PlainRuns :
       /\ Ran("clone", authenticated_repo_url, r)
       /\ Cloned(r)
  /\ UNCHANGED <<base_repo_url, local_path, username, token, authenticated_repo_url,
                 info_files, cwd, original_cwd, cp_return, push_error, caller>>
  /\ UNCHANGED <<keyVars, otherVars, mainVars>>

(***************************************************************************)
(* create_info_files (lines 140-166).                                      *)
(***************************************************************************)
\* lines 155-159: the messages of the first n files written.
RECURSIVE FileMessages(_)
FileMessages(n) ==
  IF n = 0 THEN <<>>
  ELSE Append(FileMessages(n - 1),
              Msg("File created/updated in output directory with timestamp",
                  <<output_dir \o <<"/", "i", "n", "f", "o">> \o Dec(n)
                    \o <<".", "t", "x", "t">>>>))

\* lines 145-166: makedirs succeeded or raised; written files were written
\* before a write failed, or all of them.
InfoFilesWritten(makedirs_ok, written) ==
  IF ~makedirs_ok
  THEN /\ info_files' = info_files
       /\ StepReturned("create_info_files", FALSE,
                       << Msg("An unexpected error occurred in create_info_files", <<>>) >>,
                       "Info files created successfully in output directory.",
                       "Error: Failed to create info files.", "commit_and_push_changes")
  ELSE /\ info_files' = written
       /\ StepReturned("create_info_files", written = InfoFileCount,
                       << Msg("Ensured output directory exists:", <<output_dir>>) >>
                       \o FileMessages(written)
                       \o (IF written < InfoFileCount
                           THEN << Msg("Error writing to file", <<output_dir>>) >>
                           ELSE <<>>),
                       "Info files created successfully in output directory.",
                       "Error: Failed to create info files.", "commit_and_push_changes")

CreateInfoFiles ==
  /\ gpc = "create_info_files"
  /\ \E makedirs_ok \in BOOLEAN : \E written \in 0..InfoFileCount :
       /\ makedirs_ok \/ written = 0
       /\ InfoFilesWritten(makedirs_ok, written)
  /\ caller' = "run_update"
  /\ UNCHANGED <<base_repo_url, local_path, username, token, authenticated_repo_url,
                 path_exists, is_git_repo, cwd, original_cwd, cp_return, push_error,
                 commands>>
  /\ UNCHANGED <<keyVars, otherVars, mainVars>>

(***************************************************************************)
(* commit_and_push_changes (lines 168-270), one step per git command.  A   *)
(* return statement sets cp_return and passes to the finally clause.       *)
(***************************************************************************)
\* a return inside the try: the value is kept while the finally clause runs.
Leave(value, msgs) ==
  /\ cp_return' = Some(value)
  /\ stdout' = stdout \o msgs
  /\ gpc' = "cp_finally"

\* the method goes on to its next command.
Go(next_pc, msgs) ==
  /\ cp_return' = cp_return
  /\ stdout' = stdout \o msgs
  /\ gpc' = next_pc

\* lines 265-267: except Exception
Unexpected == Msg("An unexpected error occurred in commit_and_push_changes", <<>>)

\* os.path.join of the working directory and a relative path.
Join(dir, path) == dir \o <<"/">> \o path

\* lines 177-184
CpEnter ==
  /\ gpc = "commit_and_push_changes"
  /\ original_cwd' = cwd
  /\ IF ~is_git_repo
     THEN /\ Leave(FALSE, << Msg("Error: is not a git repository.", <<local_path>>) >>)
          /\ cwd' = cwd
     ELSE \E chdir_ok \in BOOLEAN :
            IF chdir_ok
            THEN /\ cwd' = Join(cwd, local_path)
                 /\ Go("cp_add", << Msg("Changed directory to", <<local_path>>) >>)
            ELSE /\ cwd' = cwd
                 /\ Leave(FALSE, <<Unexpected>>)
  /\ UNCHANGED <<base_repo_url, local_path, username, token, authenticated_repo_url,
                 path_exists, is_git_repo, info_files, push_error, commands, calls, run_update_return, caller>>
  /\ UNCHANGED <<keyVars, otherVars, mainVars>>

\* lines 187-197: r is how git add . ended.
Added(r) ==
  CASE r.ended = "ok" ->
         Go("cp_commit", << Msg("Executing 'git add .'", <<>>),
                            Msg("'git add .' successful.", <<>>) >>)
    [] r.ended = "CalledProcessError" ->
         Leave(FALSE, << Msg("Executing 'git add .'", <<>>),
                         Msg("Error during 'git add .':", <<r.err>>) >>)
    [] r.ended = "FileNotFoundError" ->
         Leave(FALSE, << Msg("Executing 'git add .'", <<>>), GitNotFound >>)
    [] r.ended = "OSError" ->
         Leave(FALSE, << Msg("Executing 'git add .'", <<>>), Unexpected >>)

CpAdd ==
  /\ gpc = "cp_add"
  /\ \E r \in PlainRuns :
       /\ Ran("add", <<>>, r)
       /\ Added(r)
  /\ UNCHANGED <<base_repo_url, local_path, username, token, authenticated_repo_url,
                 path_exists, is_git_repo, info_files, cwd, original_cwd, push_error, calls, run_update_return, caller>>
  /\ UNCHANGED <<keyVars, otherVars, mainVars>>

nothing_to_commit == <<"n", "o", "t", "h", "i", "n", "g", " ", "t", "o", " ", "c", "o", "m", "m", "i", "t">>
no_changes_added == <<"n", "o", " ", "c", "h", "a", "n", "g", "e", "s", " ", "a", "d", "d", "e", "d", " ",
    "t", "o", " ", "c", "o", "m", "m", "i", "t">>

\* lines 207-208
SaysNothingToCommit(r) ==
  \/ Contains(lower(r.out), nothing_to_commit)
  \/ Contains(lower(r.out), no_changes_added)
  \/ Contains(lower(r.err), nothing_to_commit)
  \/ Contains(lower(r.err), no_changes_added)

\* (mutant) the check of lines 207-210 left out.
Committed_allfail(r) ==
  CASE r.ended = "ok" ->
         Go("cp_push", << Msg("Executing 'git commit -m'", <<commit_message>>),
                          Msg("'git commit' successful.", <<>>) >>)
    [] r.ended = "CalledProcessError" ->
         Leave(FALSE, << Msg("Executing 'git commit -m'", <<commit_message>>),
                         Msg("Error during 'git commit':", <<r.err>>) >>)
    [] r.ended = "FileNotFoundError" ->
         Leave(FALSE, << Msg("Executing 'git commit -m'", <<commit_message>>), GitNotFound >>)
    [] r.ended = "OSError" ->
         Leave(FALSE, << Msg("Executing 'git commit -m'", <<commit_message>>), Unexpected >>)

\* lines 200-215: r is how git commit -m <message> ended.
Committed(r) ==
  CASE r.ended = "ok" ->
         Go("cp_push", << Msg("Executing 'git commit -m'", <<commit_message>>),
                          Msg("'git commit' successful.", <<>>) >>)
    [] r.ended = "CalledProcessError" /\ SaysNothingToCommit(r) ->
         Leave(TRUE, << Msg("Executing 'git commit -m'", <<commit_message>>),
                        Msg("No changes to commit.", <<>>) >>)
    [] r.ended = "CalledProcessError" /\ ~SaysNothingToCommit(r) ->
         Leave(FALSE, << Msg("Executing 'git commit -m'", <<commit_message>>),
                         Msg("Error during 'git commit':", <<r.err>>) >>)
    [] r.ended = "FileNotFoundError" ->
         Leave(FALSE, << Msg("Executing 'git commit -m'", <<commit_message>>), GitNotFound >>)
    [] r.ended = "OSError" ->
         Leave(FALSE, << Msg("Executing 'git commit -m'", <<commit_message>>), Unexpected >>)

CpCommit ==
  /\ gpc = "cp_commit"
  /\ \E r \in CommitRuns :
       /\ Ran("commit", <<>>, r)
       /\ Committed(r)
  /\ UNCHANGED <<base_repo_url, local_path, username, token, authenticated_repo_url,
                 path_exists, is_git_repo, info_files, cwd, original_cwd, push_error, calls, run_update_return, caller>>
  /\ UNCHANGED <<keyVars, otherVars, mainVars>>

non_fast_forward == <<"n", "o", "n", "-", "f", "a", "s", "t", "-", "f", "o", "r", "w", "a", "r", "d">>
rejected == <<"r", "e", "j", "e", "c", "t", "e", "d">>
failed_to_push == <<"f", "a", "i", "l", "e", "d", " ", "t", "o", " ", "p", "u", "s", "h", " ", "s", "o",
    "m", "e", " ", "r", "e", "f", "s", " ", "t", "o">>

\* line 226
RetryWithRebase(push_error_stderr) ==
  \/ Contains(push_error_stderr, non_fast_forward)
  \/ Contains(push_error_stderr, rejected)
  \/ Contains(push_error_stderr, failed_to_push)

\* lines 218-228, 258-264: r is how git push <authenticated url> main ended.
Pushed(r) ==
  CASE r.ended = "ok" ->
         /\ push_error' = push_error
         /\ Leave(TRUE, << Msg("Executing 'git push <authenticated_url> main'", <<>>),
                           Msg("'git push' successful.", <<>>) >>)
    [] r.ended = "CalledProcessError" /\ RetryWithRebase(lower(r.err)) ->
         /\ push_error' = Some(r)
         /\ Go("cp_pull_rebase",
               << Msg("Executing 'git push <authenticated_url> main'", <<>>),
                  Msg("Non-fast-forward error detected during 'git push':", <<r.err>>),
                  Msg("Attempting to pull with rebase and force push", <<>>) >>)
    [] r.ended = "CalledProcessError" /\ ~RetryWithRebase(lower(r.err)) ->
         /\ push_error' = Some(r)
         /\ Leave(FALSE, << Msg("Executing 'git push <authenticated_url> main'", <<>>),
                            Msg("Error during 'git push':", <<r.err>>) >>)
    [] r.ended = "FileNotFoundError" ->
         /\ push_error' = push_error
         /\ Leave(FALSE, << Msg("Executing 'git push <authenticated_url> main'", <<>>),
                            Msg("Error: git command not found during initial push.", <<>>) >>)
    [] r.ended = "OSError" ->
         /\ push_error' = push_error
         /\ Leave(FALSE, << Msg("Executing 'git push <authenticated_url> main'", <<>>),
                            Unexpected >>)

CpPush ==
  /\ gpc = "cp_push"
  /\ \E r \in PushRuns :
       /\ Ran("push", authenticated_repo_url, r)
       /\ Pushed(r)
  /\ UNCHANGED <<base_repo_url, local_path, username, token, authenticated_repo_url,
                 path_exists, is_git_repo, info_files, cwd, original_cwd, calls, run_update_return, caller>>
  /\ UNCHANGED <<keyVars, otherVars, mainVars>>

\* lines 234-244: r is how git pull <authenticated url> main --rebase ended.
PulledRebase(r) ==
  CASE r.ended = "ok" ->
         Go("cp_push_force",
            << Msg("Executing 'git pull <authenticated_url> main --rebase'", <<>>),
               Msg("'git pull --rebase' successful.", <<>>) >>)
    [] r.ended = "CalledProcessError" ->
         Leave(FALSE, << Msg("Executing 'git pull <authenticated_url> main --rebase'", <<>>),
                         Msg("Error during 'git pull --rebase':", <<r.err>>) >>)
    [] r.ended = "FileNotFoundError" ->
         Leave(FALSE, << Msg("Executing 'git pull <authenticated_url> main --rebase'", <<>>),
                         Msg("Error: git command not found during pull --rebase.", <<>>) >>)
    [] r.ended = "OSError" ->
         Leave(FALSE, << Msg("Executing 'git pull <authenticated_url> main --rebase'", <<>>),
                         Unexpected >>)

CpPullRebase ==
  /\ gpc = "cp_pull_rebase"
  /\ \E r \in PullRebaseRuns :
       /\ Ran("pull --rebase", authenticated_repo_url, r)
       /\ PulledRebase(r)
  /\ UNCHANGED <<base_repo_url, local_path, username, token, authenticated_repo_url,
                 path_exists, is_git_repo, info_files, cwd, original_cwd, push_error, calls, run_update_return, caller>>
  /\ UNCHANGED <<keyVars, otherVars, mainVars>>

\* lines 247-257, 264: r is how git push <authenticated url> main --force ended.
PushedForce(r) ==
  CASE r.ended = "ok" ->
         Leave(TRUE, << Msg("Executing 'git push <authenticated_url> main --force'", <<>>),
                        Msg("'git push --force' successful.", <<>>) >>)
    [] r.ended = "CalledProcessError" ->
         Leave(FALSE, << Msg("Executing 'git push <authenticated_url> main --force'", <<>>),
                         Msg("Error during 'git push --force':", <<r.err>>) >>)
    [] r.ended = "FileNotFoundError" ->
         Leave(FALSE, << Msg("Executing 'git push <authenticated_url> main --force'", <<>>),
                         Msg("Error: git command not found during push --force.", <<>>) >>)
    [] r.ended = "OSError" ->
         Leave(FALSE, << Msg("Executing 'git push <authenticated_url> main --force'", <<>>),
                         Unexpected >>)

CpPushForce ==
  /\ gpc = "cp_push_force"
  /\ \E r \in PlainRuns \cup {Failed(<<>>, HookDeclined, "hook")} :
       /\ Ran("push --force", authenticated_repo_url, r)
       /\ PushedForce(r)
  /\ UNCHANGED <<base_repo_url, local_path, username, token, authenticated_repo_url,
                 path_exists, is_git_repo, info_files, cwd, original_cwd, push_error, calls, run_update_return, caller>>
  /\ UNCHANGED <<keyVars, otherVars, mainVars>>

\* (mutant) the finally clause without os.chdir.
Restore_nochdir(dir) == cwd' = cwd

\* line 269: os.chdir(original_cwd)
Restore(dir) == cwd' = dir

\* lines 292-304: run_update after commit_and_push_changes returned value; a
\* caller other than run_update just has the value.
Finished(value) ==
  /\ calls' = Append(calls, <<"commit_and_push_changes", value>>)
  /\ gpc' = "returned"
  /\ IF caller = "run_update"
     THEN /\ run_update_return' = Some(value)
          /\ stdout' = stdout
               \o << Msg("Restored original working directory to", <<original_cwd>>),
                     IF value THEN Msg("Repository update process completed.", <<>>)
                     ELSE Msg("Error: Failed to commit and push changes.", <<>>) >>
     ELSE /\ run_update_return' = run_update_return
          /\ stdout' = Append(stdout,
                              Msg("Restored original working directory to", <<original_cwd>>))

\* lines 268-270: the finally clause, then the return.
CpFinally ==
  /\ gpc = "cp_finally"
  /\ Restore(original_cwd)
  /\ Finished(cp_return[1])
  /\ UNCHANGED <<base_repo_url, local_path, username, token, authenticated_repo_url,
                 path_exists, is_git_repo, info_files, original_cwd, cp_return, push_error, commands, caller>>
  /\ UNCHANGED <<keyVars, otherVars, mainVars>>

(***************************************************************************)
(* A GitRepoUpdater made from a configuration (lines 351-356), then        *)
(* run_update (line 358); or commit_and_push_changes called on it alone.   *)
(***************************************************************************)
BaseUrls ==
  { <<"h", "t", "t", "p", "s", ":", "/", "/", "h", "/", "r", ".", "g", "i", "t">>,
    <<"h", "/", "r", ".", "g", "i", "t">>,
    <<"g", "i", "t", ":", "/", "/", "h", "/", "r", ".", "g", "i", "t">> }

Tokens == { <<"g", "h", "p", "_", "1">>, <<"s", "3">> }

\* os.getcwd() when the script starts.
StartDir == <<"/", "w">>

InitUpdater(at, by) ==
  /\ base_repo_url \in BaseUrls
  /\ local_path = <<"r", "e", "p", "o">>
  /\ username = <<"u">>
  /\ token \in Tokens
  /\ authenticated_repo_url = AuthenticatedUrl(base_repo_url, username, token)
  /\ path_exists \in BOOLEAN
  /\ is_git_repo \in BOOLEAN
  /\ is_git_repo => path_exists
  /\ info_files = 0
  /\ cwd = StartDir
  /\ original_cwd = <<>>
  /\ gpc = at
  /\ cp_return = None
  /\ push_error = None
  /\ commands = <<>>
  /\ calls = <<>>
  /\ stdout = <<>>
  /\ run_update_return = None
  /\ caller = by

InitRunUpdate == IdleKey /\ IdleOther /\ IdleMain /\ InitUpdater("run_update", "none")

NextCommitPush ==
  \/ CpEnter
  \/ CpAdd
  \/ CpCommit
  \/ CpPush
  \/ CpPullRebase
  \/ CpPushForce
  \/ CpFinally

NextRunUpdate ==
  \/ RunUpdate
  \/ Pull
  \/ NotARepository
  \/ Clone
  \/ CreateInfoFiles
  \/ NextCommitPush

SpecRunUpdate == InitRunUpdate /\ [][NextRunUpdate]_vars

InitCommitPush ==
  IdleKey /\ IdleOther /\ IdleMain /\ InitUpdater("commit_and_push_changes", "direct")

SpecCommitPush == InitCommitPush /\ [][NextCommitPush]_vars

(***************************************************************************)
(* The calendar, stated apart from datetime.date: month lengths by name.   *)
(***************************************************************************)
GregorianLeap(y) == y % 400 = 0 \/ (y % 4 = 0 /\ y % 100 # 0)

GregorianMonthLength(y, m) ==
  CASE m \in {4, 6, 9, 11} -> 30
    [] m = 2 -> IF GregorianLeap(y) THEN 29 ELSE 28
    [] OTHER -> 31

GregorianValid(y, m, d) ==
  /\ y >= 1
  /\ m >= 1 /\ m <= 12
  /\ d >= 1 /\ d <= GregorianMonthLength(y, m)

SrcDate(src) == [year |-> src.year, month |-> src.month, day |-> src.day]

Bare(src) == src.pre = <<>> /\ src.post = <<>>

(***************************************************************************)
(* What a history file holds, read off its decoded value: the (category,   *)
(* raw key) pairs of its category objects; and what a mapping holds: its   *)
(* (symbol, category, date) triples and the value under one of them.       *)
(***************************************************************************)
KeysOf(file) ==
  IF file.st # "ok" \/ file.json.t # "obj" THEN {}
  ELSE UNION { {<<file.json.items[c][1], file.json.items[c][2].items[k][1]>> :
                  k \in 1..Len(file.json.items[c][2].items)} :
               c \in {x \in 1..Len(file.json.items) : file.json.items[x][2].t = "obj"} }

\* the i-th history file of the processing order, as open + json.load give it.
HistoryFile(i) == ReadFile(fs, history_files[i])

\* the key parser returned a (symbol, date) pair.
IsPair(r) == r[1] # None /\ r[2] # None

\* ... and the symbol of the pair is not the empty string.
IsNamedPair(r) == IsPair(r) /\ r[1] # Some(<<>>)

PairsOf(file) == {p \in KeysOf(file) : IsPair(parse_datetime_from_string_key(p[2]))}

NamedPairsOf(file) ==
  {p \in KeysOf(file) : IsNamedPair(parse_datetime_from_string_key(p[2]))}

\* the triple the pair p = (category, raw key) names.
TripleOf(p) ==
  << parse_datetime_from_string_key(p[2])[1][1], p[1],
     parse_datetime_from_string_key(p[2])[2][1] >>

Triples(pd) ==
  UNION { UNION { { <<pd[i][1], pd[i][2][j][1], pd[i][2][j][2][k][1]>> :
                      k \in 1..Len(pd[i][2][j][2]) } :
                  j \in 1..Len(pd[i][2]) } :
          i \in 1..Len(pd) }

Lookup(pd, tr) ==
  IF tr \in Triples(pd) THEN Some(DictGet(DictGet(DictGet(pd, tr[1]), tr[2]), tr[3]))
  ELSE None

\* the values the file holds for the triple tr, one per key that names it.
ValuesOf(file, tr) ==
  IF file.st # "ok" \/ file.json.t # "obj" THEN {}
  ELSE UNION { { file.json.items[c][2].items[k][2] :
                   k \in { x \in 1..Len(file.json.items[c][2].items) :
                           /\ IsNamedPair(parse_datetime_from_string_key(
                                            file.json.items[c][2].items[x][1]))
                           /\ TripleOf(<<tr[2], file.json.items[c][2].items[x][1]>>) = tr } } :
               c \in { x \in 1..Len(file.json.items) :
                       /\ file.json.items[x][2].t = "obj"
                       /\ file.json.items[x][1] = tr[2] } }

RECURSIVE ItemsUpTo(_)
ItemsUpTo(i) ==
  IF i = 0 THEN 0 ELSE ItemsUpTo(i - 1) + Cardinality(NamedPairsOf(HistoryFile(i)))

\* C1: for every symbol without a single quote and every valid Gregorian date
\* with year >= 1, the parser applied to the key Python prints for the pair,
\* ('<symbol>', datetime.date(<Y>, <M>, <D>)), returns exactly (symbol, date).
C1_ReprKeyRoundTrips ==
  (/\ kpc = "ret"
   /\ key_src.form = "repr"
   /\ Bare(key_src)
   /\ GregorianValid(key_src.year, key_src.month, key_src.day))
  => key_result = <<Some(key_src.symbol), Some(SrcDate(key_src))>>

\* C2 as stated: once parse_history_file has returned for a file that decodes
\* to an object of category objects, its item count is the number of
\* (rawKey, value) pairs on which the key parser returns a (symbol, date) pair,
\* whatever the symbol, and each such pair's value is in the returned mapping.
C2_EveryParsedPairIsRecorded ==
  (/\ hf_done > 0
   /\ last_history.parsed_data # None)
  => /\ last_history.item_count = Cardinality(PairsOf(HistoryFile(hf_done)))
     /\ \A p \in PairsOf(HistoryFile(hf_done)) :
          TripleOf(p) \in Triples(last_history.parsed_data[1])

\* C3: while history files are parsed and merged, every date of
\* all_history_data is a calendar date the key parser returned for a key of a
\* processed file, under that key's category and symbol; a key on which the
\* parser returns no match adds no entry and no count (the item total is the
\* number of keys recorded), and the keys of the same file that the loader
\* records are all in the aggregate.
C3_AggregateHoldsOnlyParsedDates ==
  /\ \A tr \in Triples(all_history_data) :
       /\ GregorianValid(tr[3].year, tr[3].month, tr[3].day)
       /\ \E i \in 1..hf_done : \E p \in NamedPairsOf(HistoryFile(i)) : TripleOf(p) = tr
  /\ total_history_items_overall = ItemsUpTo(hf_done)
  /\ \A i \in 1..hf_done : \A p \in NamedPairsOf(HistoryFile(i)) :
       TripleOf(p) \in Triples(all_history_data)

C3_Witness ==
  /\ hf_done = 1
  /\ \E p \in KeysOf(HistoryFile(1)) :
       /\ re_search(p[2]).matched
       /\ parse_datetime_from_string_key(p[2]) = <<None, None>>
  /\ \E p \in KeysOf(HistoryFile(1)) : ~re_search(p[2]).matched
  /\ total_history_items_overall = 1
  /\ DictKeys(all_history_data) = {SymA}

\* C4: after the first hf_done history files have been processed, for every
\* (symbol, category, date) triple a processed file contributed, the aggregate
\* holds a value of the last processed file that contributed the triple (so
\* no contributed triple is ever missing).
C4_LastFileWins ==
  \A i \in 1..hf_done : \A p \in NamedPairsOf(HistoryFile(i)) :
    \E last \in i..hf_done :
      /\ ValuesOf(HistoryFile(last), TripleOf(p)) # {}
      /\ \A later \in (last + 1)..hf_done : ValuesOf(HistoryFile(later), TripleOf(p)) = {}
      /\ Lookup(all_history_data, TripleOf(p)) # None
      /\ Lookup(all_history_data, TripleOf(p))[1] \in ValuesOf(HistoryFile(last), TripleOf(p))

C4_Witness ==
  /\ hf_done = 2
  /\ \E tr \in Triples(all_history_data) :
       /\ ValuesOf(HistoryFile(1), tr) = {JNum(1)}
       /\ ValuesOf(HistoryFile(2), tr) = {JNum(5)}
       /\ Lookup(all_history_data, tr) = Some(JNum(5))
  /\ \E tr \in Triples(all_history_data) :
       /\ ValuesOf(HistoryFile(1), tr) # {}
       /\ ValuesOf(HistoryFile(2), tr) = {}

\* C5 as stated: no loader raises on a missing, undecodable or wrongly shaped
\* file: the run never ends on an exception, and when it ends every history
\* file and every other file of the directory has been handed to its loader.
C5_LoadersNeverRaise ==
  /\ exception = None
  /\ (pc = "exit" /\ dir_exists)
     => (hf_done = Len(history_files) /\ ojf_done = Len(other_json_files))

\* C6 as stated: a run of the program on an existing directory that has ended
\* has printed the summary (and left with status 0); only a run on a missing
\* directory ends without it.
C6_ExistingDirReachesSummary ==
  (pc = "exit" /\ dir_exists) => (summary # None /\ exit_status = Some(0))

\* C7: a key that has the pattern form (a four-digit year, one or two digits
\* for month and day) but whose integers are no calendar date returns
\* (None, None): both fields absent, never a symbol without a date.
C7_InvalidDateIsNoMatch ==
  kpc = "ret" =>
    /\ (/\ key_src.form \in WellFormedForms
        /\ Bare(key_src)
        /\ Len(Dec(key_src.year)) = 4 \/ key_src.form # "repr"
        /\ ~GregorianValid(key_src.year, key_src.month, key_src.day))
       => key_result = <<None, None>>
    /\ (key_result[1] = None) <=> (key_result[2] = None)

C7_Witness ==
  /\ kpc = "ret"
  /\ key_src.form = "zero4"
  /\ Bare(key_src)
  /\ key_src.year = 2023 /\ key_src.month = 2 /\ key_src.day = 30
  /\ re_search(key_string).matched
  /\ key_result = <<None, None>>

\* C8: a key whose date constructor has fewer than three integer components,
\* or a non-numeric token in the year, month or day slot, or that has no date
\* constructor at all, returns (None, None).
C8_MalformedIsNoMatch ==
  (kpc = "ret" /\ key_src.form \in MalformedForms) => key_result = <<None, None>>

C8_Witness ==
  /\ kpc = "ret"
  /\ key_src.form = "two"
  /\ key_src.year = 2023 /\ key_src.month = 12
  /\ key_result = <<None, None>>

\* C9 as stated: the parser matches only when the whole key has the pattern
\* form, so a well-formed group with characters before or after it returns
\* no match.
C9_OnlyWholeKeyMatches ==
  (kpc = "ret" /\ ~Bare(key_src)) => key_result = <<None, None>>

\* C9 as amended: the parser searches the key; a well-formed group with a
\* valid date returns its (symbol, date) whatever characters precede or follow
\* it, as long as no match of the pattern starts before the group.
C9_SearchFindsEmbeddedGroup ==
  (/\ kpc = "ret"
   /\ key_src.form = "zero4"
   /\ ~Bare(key_src)
   /\ \A i \in 1..Len(key_src.pre) : ~MatchAt(key_string, i).matched
   /\ GregorianValid(key_src.year, key_src.month, key_src.day))
  => key_result = <<Some(key_src.symbol), Some(SrcDate(key_src))>>

C9_Witness ==
  /\ kpc = "ret"
  /\ key_src.pre = <<"(", "'">>
  /\ key_src.post = <<",", " ", "1">>
  /\ key_src.year = 2024 /\ key_src.day = 29
  /\ key_result = <<Some(key_src.symbol), Some(SrcDate(key_src))>>

\* C10: parse_other_json_file returns (symbol, details) exactly when the file
\* decodes to a non-empty list whose first element is a list of two or more
\* items, the first a string and the second an object; the pair is those two
\* items, the same as for the file cut down to them; otherwise it returns None.
C10_OtherLoaderContract ==
  opc = "ret" =>
    IF /\ other_file.st = "ok"
       /\ other_file.json.t = "list"
       /\ Len(other_file.json.elems) >= 1
       /\ other_file.json.elems[1].t = "list"
       /\ Len(other_file.json.elems[1].elems) >= 2
       /\ other_file.json.elems[1].elems[1].t = "str"
       /\ other_file.json.elems[1].elems[2].t = "obj"
    THEN /\ other_result = Some(<<other_file.json.elems[1].elems[1],
                                  other_file.json.elems[1].elems[2]>>)
         /\ other_result = parse_other_json_file(
              [st |-> "ok",
               json |-> JList(<<JList(SubSeq(other_file.json.elems[1].elems, 1, 2))>>)])
    ELSE other_result = None

C10_Witness ==
  /\ opc = "ret"
  /\ Len(other_file.json.elems) = 2
  /\ Len(other_file.json.elems[1].elems) = 3
  /\ other_result = Some(<<JStr(AAPL), JObj(<< <<name, JStr(<<"A">>)>> >>)>>)

(***************************************************************************)
(* What an other file holds, read off its decoded value.                   *)
(***************************************************************************)
\* the i-th other file of the processing order, as open + json.load give it.
OtherFile(i) == ReadFile(fs, other_json_files[i])

\* the file decodes to [[symbol, details, ...], ...].
WellShaped(file) ==
  /\ file.st = "ok"
  /\ file.json.t = "list"
  /\ Len(file.json.elems) >= 1
  /\ file.json.elems[1].t = "list"
  /\ Len(file.json.elems[1].elems) >= 2
  /\ file.json.elems[1].elems[1].t = "str"
  /\ file.json.elems[1].elems[2].t = "obj"

SymbolIn(file) == file.json.elems[1].elems[1].s

DetailsIn(file) == file.json.elems[1].elems[2]

\* C11: after the first ojf_done other files have been processed,
\* all_other_data holds exactly the symbols of the well-shaped files among
\* them, each with the details of the last well-shaped file carrying it; the
\* count of successfully parsed files is the number of well-shaped files (a
\* file that fails changes neither), and the symbols never outnumber it.
C11_OtherRecordLastWins ==
  /\ successfully_parsed_other_files =
       Cardinality({i \in 1..ojf_done : WellShaped(OtherFile(i))})
  /\ Len(all_other_data) <= successfully_parsed_other_files
  /\ Len(all_other_data) = Cardinality(DictKeys(all_other_data))
  /\ DictKeys(all_other_data) =
       {SymbolIn(OtherFile(i)) : i \in {x \in 1..ojf_done : WellShaped(OtherFile(x))}}
  /\ \A i \in 1..ojf_done :
       (/\ WellShaped(OtherFile(i))
        /\ \A later \in (i + 1)..ojf_done :
             WellShaped(OtherFile(later)) => SymbolIn(OtherFile(later)) # SymbolIn(OtherFile(i)))
       => DictGet(all_other_data, SymbolIn(OtherFile(i))) = DetailsIn(OtherFile(i))

C11_Witness ==
  /\ ojf_done = 2
  /\ WellShaped(OtherFile(1)) /\ WellShaped(OtherFile(2))
  /\ SymbolIn(OtherFile(1)) = SymbolIn(OtherFile(2))
  /\ DetailsIn(OtherFile(1)) # DetailsIn(OtherFile(2))
  /\ successfully_parsed_other_files = 2
  /\ all_other_data = << <<SymbolIn(OtherFile(2)), DetailsIn(OtherFile(2))>> >>

(***************************************************************************)
(* Names and lists, stated apart from str.endswith.                        *)
(***************************************************************************)
HasEnding(str, suffix) == \E k \in 0..Len(str) : SubSeq(str, 1, k) \o suffix = str

Members(list) == {list[i] : i \in 1..Len(list)}

\* the place of the entry of that name in the listing.
PlaceOf(path) == CHOOSE i \in 1..Len(fs) : fs[i].name = path

InListingOrder(list) ==
  /\ Len(list) = Cardinality(Members(list))
  /\ \A i \in 1..Len(list) : \A j \in (i + 1)..Len(list) :
       PlaceOf(list[i]) < PlaceOf(list[j])

Printed == summary[1].history_lines

\* the symbol under which line k is printed: that of the last symbol line.
SymbolAt(k) ==
  Printed[CHOOSE j \in 1..k :
            /\ Printed[j].kind = "symbol"
            /\ \A later \in (j + 1)..k : Printed[later].kind # "symbol"].text

\* the places of the lines of that kind printed for a category of a symbol.
LinesFor(kind, symbol, data_type_key) ==
  { k \in 1..Len(Printed) :
      /\ Printed[k].kind = kind
      /\ Printed[k].text = data_type_key
      /\ SymbolAt(k) = symbol }

Ordinal(d) == d.year * 10000 + d.month * 100 + d.day

\* the entries of a category dict that have fewer than cap entries before them.
Earliest(type_data_dict, cap) ==
  { e \in Members(type_data_dict) :
      Cardinality({o \in Members(type_data_dict) : Ordinal(o[1]) < Ordinal(e[1])}) < cap }

\* the sample of one category of a listed symbol.
CategorySampleOk(symbol, data_type_key, type_data_dict) ==
  /\ { <<Printed[k].date, Printed[k].value>> : k \in LinesFor("entry", symbol, data_type_key) }
       = Earliest(type_data_dict, 2)
  /\ Cardinality(LinesFor("entry", symbol, data_type_key))
       = Cardinality(Earliest(type_data_dict, 2))
  /\ \A k1 \in LinesFor("entry", symbol, data_type_key) :
       \A k2 \in LinesFor("entry", symbol, data_type_key) :
         k1 < k2 => Ordinal(Printed[k1].date) < Ordinal(Printed[k2].date)
  /\ IF Len(type_data_dict) > 2
     THEN \E k \in 1..Len(Printed) :
            /\ LinesFor("more_entries", symbol, data_type_key) = {k}
            /\ Printed[k].n = Len(type_data_dict) - 2
     ELSE LinesFor("more_entries", symbol, data_type_key) = {}

\* C13: the printed summary lists the first 3 history symbols and no other;
\* for each category of a listed symbol it lists the 2 earliest dates (all of
\* them when there are fewer) with their values, in ascending order; it
\* reports n - 3 more symbols exactly when there are n > 3, and m - 2 more
\* entries of a category exactly when it has m > 2.
C13_SummarySampleIsCapped ==
  summary # None =>
    /\ \A i \in 1..Len(all_history_data) :
         IF i <= 3
         THEN /\ Cardinality({k \in 1..Len(Printed) :
                               /\ Printed[k].kind = "symbol"
                               /\ Printed[k].text = all_history_data[i][1]}) = 1
              /\ \A j \in 1..Len(all_history_data[i][2]) :
                   CategorySampleOk(all_history_data[i][1], all_history_data[i][2][j][1],
                                    all_history_data[i][2][j][2])
         ELSE \A k \in 1..Len(Printed) :
                Printed[k].kind = "symbol" => Printed[k].text # all_history_data[i][1]
    /\ IF Len(all_history_data) > 3
       THEN \E k \in 1..Len(Printed) :
              /\ {x \in 1..Len(Printed) : Printed[x].kind = "more_symbols"} = {k}
              /\ Printed[k].n = Len(all_history_data) - 3
       ELSE \A k \in 1..Len(Printed) : Printed[k].kind # "more_symbols"

C13_Witness ==
  /\ summary # None
  /\ Len(all_history_data) = 4
  /\ all_history_data[1][2] =
       << <<close, << <<DatePool[1], JNum(10)>>, <<DatePool[3], JNum(2)>>,
                      <<DatePool[2], JNum(31)>> >> >> >>
  /\ SubSeq(Printed, 1, 5) =
       << Line("symbol", SymA, NoDate, JNull, 0),
          Line("category", close, NoDate, JNull, 0),
          Line("entry", close, DatePool[2], JNum(31), 0),
          Line("entry", close, DatePool[3], JNum(2), 0),
          Line("more_entries", close, NoDate, JNull, 1) >>
  /\ Printed[Len(Printed)] = Line("more_symbols", <<>>, NoDate, JNull, 1)

\* C18 as stated: the total item count handed to the summary is the number of
\* (symbol, category, date) entries of all_history_data, the symbol count
\* reported is the number of its distinct symbols, and the item count of the
\* file parsed last is the number of date entries of the mapping it returned.
C18_TotalIsEntryCount ==
  /\ summary # None =>
       /\ summary[1].total_history_items = Cardinality(Triples(all_history_data))
       /\ summary[1].history_symbols = Cardinality(DictKeys(all_history_data))
  /\ last_history.parsed_data # None =>
       last_history.item_count = Cardinality(Triples(last_history.parsed_data[1]))

\* C19 as stated: no step of a run changes the directory: the files in it
\* and their contents stay what they were when the run started.
C19_DirectoryIsOnlyRead == [][fs' = fs]_vars

(***************************************************************************)
(* Statements about GitRepoUpdater.                                        *)
(***************************************************************************)
\* the places in the command log of the commands named cmd.
CommandsNamed(cmd) == {i \in 1..Len(commands) : commands[i].cmd = cmd}

\* the value the call of method returned, in a set; empty before it returns.
Returned(method) == {calls[i][2] : i \in {k \in 1..Len(calls) : calls[k][1] = method}}

\* commit_and_push_changes is running.
InCommitAndPush ==
  gpc \in {"commit_and_push_changes", "cp_add", "cp_commit", "cp_push", "cp_pull_rebase",
           "cp_push_force", "cp_finally"}

\* C14 as stated: pull --rebase and push --force are run only when the
\* initial push failed because of a non-fast-forward error, push --force only
\* right after a pull --rebase that succeeded; another failure of the initial
\* push returns False with neither of them run, and a push that succeeded is
\* never followed by a force push.
C14_RebaseOnlyOnNonFastForward ==
  /\ \A i \in CommandsNamed("pull --rebase") \cup CommandsNamed("push --force") :
       \E k \in CommandsNamed("push") :
         /\ k < i
         /\ commands[k].run.ended = "CalledProcessError"
         /\ commands[k].run.cause = "non-fast-forward"
  /\ \A i \in CommandsNamed("push --force") :
       /\ i > 1
       /\ commands[i - 1].cmd = "pull --rebase"
       /\ commands[i - 1].run.ended = "ok"
  /\ \A k \in CommandsNamed("push") :
       /\ commands[k].run.ended = "ok" => CommandsNamed("push --force") = {}
       /\ (commands[k].run.ended # "ok" /\ commands[k].run.cause # "non-fast-forward")
            => /\ Len(commands) = k
               /\ gpc = "returned" => Returned("commit_and_push_changes") = {FALSE}

\* C15: run_update calls clone_or_pull_repo, create_info_files and
\* commit_and_push_changes in that order, each only after every earlier one
\* returned True: no info file is written and no add, commit or push is run
\* after a step that failed; and it returns True exactly when all three did.
C15_StepsInOrderUntilOneFails ==
  /\ \A i \in 1..Len(calls) :
       /\ i <= 3
       /\ calls[i][1] = <<"clone_or_pull_repo", "create_info_files",
                          "commit_and_push_changes">>[i]
       /\ i > 1 => calls[i - 1][2]
  /\ gpc = "create_info_files" => calls = << <<"clone_or_pull_repo", TRUE>> >>
  /\ InCommitAndPush =>
       calls = << <<"clone_or_pull_repo", TRUE>>, <<"create_info_files", TRUE>> >>
  /\ info_files > 0 => Returned("clone_or_pull_repo") = {TRUE}
  /\ \A i \in 1..Len(commands) :
       commands[i].cmd \notin {"clone", "pull"} =>
         /\ Returned("clone_or_pull_repo") = {TRUE}
         /\ Returned("create_info_files") = {TRUE}
  /\ gpc = "returned" =>
       /\ run_update_return # None
       /\ run_update_return[1] =
            (/\ Returned("clone_or_pull_repo") = {TRUE}
             /\ Returned("create_info_files") = {TRUE}
             /\ Returned("commit_and_push_changes") = {TRUE})
  /\ gpc # "returned" => run_update_return = None

C15_Witness ==
  /\ gpc = "returned"
  /\ run_update_return = Some(TRUE)
  /\ calls = << <<"clone_or_pull_repo", TRUE>>, <<"create_info_files", TRUE>>,
                <<"commit_and_push_changes", TRUE>> >>
  /\ info_files = InfoFileCount
  /\ CommandsNamed("clone") = {1}
  /\ CommandsNamed("push") # {}

C15_WitnessFailedStep ==
  /\ gpc = "returned"
  /\ run_update_return = Some(FALSE)
  /\ calls = << <<"clone_or_pull_repo", TRUE>>, <<"create_info_files", FALSE>> >>
  /\ info_files = 2

\* C16: whenever commit_and_push_changes has returned, whatever the path it
\* returned by, the working directory is the one the process had when the
\* method was entered.
C16_WorkingDirectoryRestored ==
  Returned("commit_and_push_changes") # {} => cwd = StartDir

\* the method went into the repository and then returned after a command failed.
C16_Witness ==
  /\ Returned("commit_and_push_changes") = {FALSE}
  /\ original_cwd = StartDir
  /\ cwd = StartDir
  /\ CommandsNamed("push --force") # {}
  /\ commands[Len(commands)].run.ended = "OSError"

\* C17: a git commit that failed is the last command run; the method then
\* returns True when git failed because there was nothing to commit, and
\* False when it failed for another reason.
C17_FailedCommitEndsTheRun ==
  \A i \in CommandsNamed("commit") :
    commands[i].run.ended # "ok" =>
      /\ Len(commands) = i
      /\ gpc \in {"cp_finally", "returned"}
      /\ cp_return = Some(commands[i].run.cause = "nothing")
      /\ gpc = "returned" =>
           Returned("commit_and_push_changes") = {commands[i].run.cause = "nothing"}

C17_Witness ==
  /\ gpc = "returned"
  /\ Returned("commit_and_push_changes") = {TRUE}
  /\ Len(commands) = 2
  /\ commands[2].cmd = "commit"
  /\ commands[2].run = Failed(<<>>, NothingToCommit, "nothing")

\* C20 as stated: no message the script prints contains the access token.
C20_NoMessageHoldsTheToken ==
  \A i \in 1..Len(stdout) :
    \A j \in 1..Len(stdout[i].args) : ~Contains(stdout[i].args[j], token)

============================================================================
